---- MODULE Spec2Model ----
(***************************************************************************)
(* A model of the prompt pipeline of ocr_parse: the classifier, the        *)
(* response parser/validator and the renderer of prompts/prompt_manager.py *)
(* with the schemas of prompts/document_schemas.py, the prompt selection   *)
(* of prompts/prompt_templates.py, the page pipeline                       *)
(* GeminiPDFOCR.process_pdf of pdf_ocr.py with its temporary images and    *)
(* its output file, and the web handler process_pdf_file of gradio_app.py. *)
(*                                                                         *)
(* Texts are sequences of symbols.  A symbol is a TLA+ string: a single    *)
(* character (a letter, a blank, a backtick, a JSON punctuation mark) or   *)
(* one JSON lexeme (a quoted string literal, a number literal, null).      *)
(* The code slices texts by character only at the fence markers, whose     *)
(* characters are single symbols, so the slices [7:] and [:-3] are exact.  *)
(*                                                                         *)
(* JSON values are tagged records:                                         *)
(*   [k |-> "null"], [k |-> "num", n |-> thousandths] (a float),           *)
(*   [k |-> "int", n |-> thousandths] (an int),                            *)
(*   [k |-> "str", s |-> text], [k |-> "list", xs |-> sequence],           *)
(*   [k |-> "obj", m |-> function from keys to values].                    *)
(***************************************************************************)
EXTENDS Integers, Sequences, FiniteSets, TLC

VARIABLES
    pm,                 \* the PromptManager: its two flags
    document_type,      \* the DocumentType handed to parse_structured_response
    body,               \* the JSON body the model produced
    wrapping,           \* how the body is wrapped: fence markers, blanks
    response_text,      \* the whole response: the body in its wrapping
    outcome,            \* what parse_structured_response returned
    output_format,      \* the format handed to format_output
    rendered,           \* what format_output returned, or that it raised
    reply,              \* the classification the model gave: phrase, casing, context
    classification_result, \* the text handed to classify_document_type
    classified,         \* what classify_document_type returned
    pc,                 \* the position of the caller
    custom_prompt,      \* the custom prompt of the caller, or None
    extraction_prompt,  \* what get_extraction_prompt returned
    processing_prompts, \* what get_processing_prompts returned
    image_paths,        \* process_pdf: the page images of the PDF
    futures,            \* process_pdf: the call of process_single_image of each page
    model_calls,        \* the calls of the model: the page and the prompt
    results,            \* process_pdf: the results taken from executor.map
    extracted_pages,    \* process_pdf: the list it returns
    output_file,        \* the file _save_to_file leaves in the output folder
    memo,               \* the calls made on one PromptManager and what they returned
    requested_max_workers, \* the max_workers the processor was constructed with
    ocr_calls,          \* the process_pdf calls on one processor: position, images, texts
    temp_dir            \* the files of self.temp_dir: the name and what the file holds

promptVars == <<custom_prompt, extraction_prompt, processing_prompts, memo>>

procVars == <<requested_max_workers, ocr_calls, temp_dir>>

pdfVars == <<image_paths, futures, model_calls, results, extracted_pages, output_file,
             procVars>>

vars == <<pm, document_type, body, wrapping, response_text, outcome, output_format,
          rendered, reply, classification_result, classified, pc, promptVars, pdfVars>>

----------------------------------------------------------------------------
(* JSON values *)

JNull == [k |-> "null"]

JNum(n) == [k |-> "num", n |-> n]

JInt(n) == [k |-> "int", n |-> n]

JStr(s) == [k |-> "str", s |-> s]

JList(xs) == [k |-> "list", xs |-> xs]

JObj(m) == [k |-> "obj", m |-> m]

EmptyMap == [x \in {} |-> JNull]

MapPut(m, key, v) == [x \in DOMAIN m \cup {key} |-> IF x = key THEN v ELSE m[x]]

----------------------------------------------------------------------------
(* Texts: str.strip, str.startswith, str.endswith and slices *)

Whitespace == {" ", "\n", "\t"}

Drop(t, n) == IF n >= Len(t) THEN <<>> ELSE SubSeq(t, n + 1, Len(t))

Take(t, n) == IF n <= 0 THEN <<>> ELSE SubSeq(t, 1, IF n > Len(t) THEN Len(t) ELSE n)

\* the number of leading whitespace symbols of t
LeadingWs(t) ==
    IF \A i \in 1..Len(t) : t[i] \in Whitespace THEN Len(t)
    ELSE (CHOOSE i \in 1..Len(t) :
            /\ t[i] \notin Whitespace
            /\ \A j \in 1..(i - 1) : t[j] \in Whitespace) - 1

\* the number of trailing whitespace symbols of t
TrailingWs(t) ==
    IF \A i \in 1..Len(t) : t[i] \in Whitespace THEN Len(t)
    ELSE Len(t) - (CHOOSE i \in 1..Len(t) :
            /\ t[i] \notin Whitespace
            /\ \A j \in (i + 1)..Len(t) : t[j] \in Whitespace)

strip(t) == Take(Drop(t, LeadingWs(t)), Len(t) - LeadingWs(t) - TrailingWs(Drop(t, LeadingWs(t))))

startswith(t, p) == Len(t) >= Len(p) /\ SubSeq(t, 1, Len(p)) = p

endswith(t, p) == Len(t) >= Len(p) /\ SubSeq(t, Len(t) - Len(p) + 1, Len(t)) = p

\* the backtick character (the lexer of TLA+ takes no backtick inside a string)
Backtick == "BACKTICK"

\* the text of the leading marker, 7 characters
FenceJson == <<Backtick, Backtick, Backtick, "j", "s", "o", "n">>

\* the text of the trailing marker, 3 characters
Fence == <<Backtick, Backtick, Backtick>>

----------------------------------------------------------------------------
(* The lexemes of the JSON texts: the string and number literals in use *)

\* the contents of the string literals
StringPool ==
    { "document_type", "account_holder", "account_number", "bank_name",
      "statement_period", "opening_balance", "closing_balance", "total_credits",
      "total_debits", "transactions", "address", "phone", "email",
      "date", "description", "amount", "balance", "transaction_type", "reference",
      "policy_number", "claim_number", "insured_name", "incident_date",
      "incident_description", "claim_amount", "policy_type",
      "claimant_name", "accident_date", "accident_location", "accident_description",
      "vehicle_details", "damage_amount", "police_report", "witnesses",
      "invoice_number", "invoice_date", "due_date", "vendor_name", "customer_name",
      "total_amount", "tax_amount", "subtotal", "items", "vendor_address",
      "customer_address",
      "title", "parties", "addresses", "phone_numbers", "email_addresses",
      "amounts", "dates", "key_information",
      "bank_statement", "insurance_form", "accident_claim", "invoice", "receipt",
      "contract", "other",
      "debit", "credit", "transfer", "fee", "interest",
      "John Doe", "3000.00", "loyalty_points", "",
      "Jane Roe", "2024-01-15", "2024-02-01" }

Quote(s) == "\"" \o s \o "\""

\* the string literals, and the content of each
StringLexemes == { Quote(s) : s \in StringPool }

StringOf == [c \in StringLexemes |-> CHOOSE s \in StringPool : Quote(s) = c]

IsStringLexeme(c) == c \in StringLexemes

Unquote(c) == StringOf[c]

\* the number literals: the text, whether it reads as an int or as a float, and
\* its value in thousandths
NumberLexemes ==
    { <<"0", "int", 0>>, <<"7", "int", 7000>>,
      <<"0.0", "num", 0>>, <<"7.0", "num", 7000>>,
      <<"1234.5", "num", 1234500>>, <<"3000.0", "num", 3000000>>,
      <<"-150.0", "num", 0 - 150000>>, <<"2.125", "num", 2125>> }

IsNumberLexeme(c) == \E p \in NumberLexemes : p[1] = c

NumberOf(c) ==
    LET p == CHOOSE q \in NumberLexemes : q[1] = c IN [k |-> p[2], n |-> p[3]]

----------------------------------------------------------------------------
(* json.loads: a recursive-descent parse of the symbols of a text *)

\* the index of the first symbol at or after i that is not whitespace
SkipWs(t, i) ==
    IF \A j \in i..Len(t) : t[j] \in Whitespace THEN Len(t) + 1
    ELSE CHOOSE j \in i..Len(t) :
            /\ t[j] \notin Whitespace
            /\ \A h \in i..(j - 1) : t[h] \in Whitespace

ParseFail == [ok |-> FALSE]

ParseOk(v, i) == [ok |-> TRUE, v |-> v, i |-> i]

RECURSIVE ParseValue(_, _)
RECURSIVE ParseMembers(_, _, _)
RECURSIVE ParseElements(_, _, _)

\* the value that starts at symbol i, and the index after it
ParseValue(t, i) ==
    IF i > Len(t) THEN ParseFail
    ELSE IF t[i] = "{" THEN
        LET j == SkipWs(t, i + 1) IN
        IF j <= Len(t) /\ t[j] = "}" THEN ParseOk(JObj(EmptyMap), j + 1)
        ELSE ParseMembers(t, j, EmptyMap)
    ELSE IF t[i] = "[" THEN
        LET j == SkipWs(t, i + 1) IN
        IF j <= Len(t) /\ t[j] = "]" THEN ParseOk(JList(<<>>), j + 1)
        ELSE ParseElements(t, j, <<>>)
    ELSE IF t[i] = "null" THEN ParseOk(JNull, i + 1)
    ELSE IF IsStringLexeme(t[i]) THEN ParseOk(JStr(Unquote(t[i])), i + 1)
    ELSE IF IsNumberLexeme(t[i]) THEN ParseOk(NumberOf(t[i]), i + 1)
    ELSE ParseFail

\* the members of an object from the key at symbol i on; a repeated key keeps
\* its last value
ParseMembers(t, i, acc) ==
    IF i > Len(t) \/ ~IsStringLexeme(t[i]) THEN ParseFail
    ELSE LET j == SkipWs(t, i + 1) IN
    IF j > Len(t) \/ t[j] # ":" THEN ParseFail
    ELSE LET r == ParseValue(t, SkipWs(t, j + 1)) IN
    IF ~r.ok THEN ParseFail
    ELSE LET acc2 == MapPut(acc, Unquote(t[i]), r.v)
             h == SkipWs(t, r.i) IN
    IF h > Len(t) THEN ParseFail
    ELSE IF t[h] = "}" THEN ParseOk(JObj(acc2), h + 1)
    ELSE IF t[h] = "," THEN ParseMembers(t, SkipWs(t, h + 1), acc2)
    ELSE ParseFail

\* the elements of an array from the value at symbol i on
ParseElements(t, i, acc) ==
    LET r == ParseValue(t, i) IN
    IF ~r.ok THEN ParseFail
    ELSE LET acc2 == Append(acc, r.v)
             h == SkipWs(t, r.i) IN
    IF h > Len(t) THEN ParseFail
    ELSE IF t[h] = "]" THEN ParseOk(JList(acc2), h + 1)
    ELSE IF t[h] = "," THEN ParseElements(t, SkipWs(t, h + 1), acc2)
    ELSE ParseFail

\* json.loads(t): [err |-> TRUE] stands for JSONDecodeError
json_loads(t) ==
    LET r == ParseValue(t, SkipWs(t, 1)) IN
    IF ~r.ok THEN [err |-> TRUE]
    ELSE IF SkipWs(t, r.i) <= Len(t) THEN [err |-> TRUE]
    ELSE [err |-> FALSE, v |-> r.v]

----------------------------------------------------------------------------
(* The schemas of document_schemas.py *)

\* the values of the enum DocumentType
DocumentType ==
    { "bank_statement", "insurance_form", "accident_claim", "invoice", "receipt",
      "contract", "other" }

\* the values of the enum TransactionType
TransactionType == { "debit", "credit", "transfer", "fee", "interest" }

\* a field: its name, its annotation, whether the annotation is Optional[...],
\* and the default an absent key gets (None, or what the default_factory makes)
Fld(name, type, nullable, default) ==
    [name |-> name, type |-> type, nullable |-> nullable, default |-> default]

OptStr(name) == Fld(name, "str", TRUE, JNull)

OptFloat(name) == Fld(name, "float", TRUE, JNull)

OptListStr(name) == Fld(name, "List[str]", TRUE, JList(<<>>))

Transaction ==
    << OptStr("date"), OptStr("description"), OptFloat("amount"), OptFloat("balance"),
       Fld("transaction_type", "TransactionType", TRUE, JNull), OptStr("reference") >>

BankStatementSchema ==
    << Fld("document_type", "DocumentType", FALSE, JStr("bank_statement")),
       OptStr("account_holder"), OptStr("account_number"), OptStr("bank_name"),
       OptStr("statement_period"), OptFloat("opening_balance"),
       OptFloat("closing_balance"), OptFloat("total_credits"), OptFloat("total_debits"),
       Fld("transactions", "List[Transaction]", FALSE, JList(<<>>)),
       OptStr("address"), OptStr("phone"), OptStr("email") >>

InsuranceClaimSchema ==
    << Fld("document_type", "DocumentType", FALSE, JStr("insurance_form")),
       OptStr("policy_number"), OptStr("claim_number"), OptStr("insured_name"),
       OptStr("incident_date"), OptStr("incident_description"),
       OptFloat("claim_amount"), OptStr("policy_type"),
       OptStr("address"), OptStr("phone"), OptStr("email") >>

AccidentClaimSchema ==
    << Fld("document_type", "DocumentType", FALSE, JStr("accident_claim")),
       OptStr("claim_number"), OptStr("claimant_name"), OptStr("accident_date"),
       OptStr("accident_location"), OptStr("accident_description"),
       OptStr("vehicle_details"), OptFloat("damage_amount"), OptStr("police_report"),
       OptListStr("witnesses"),
       OptStr("address"), OptStr("phone"), OptStr("email") >>

InvoiceSchema ==
    << Fld("document_type", "DocumentType", FALSE, JStr("invoice")),
       OptStr("invoice_number"), OptStr("invoice_date"), OptStr("due_date"),
       OptStr("vendor_name"), OptStr("customer_name"), OptFloat("total_amount"),
       OptFloat("tax_amount"), OptFloat("subtotal"), OptListStr("items"),
       OptStr("vendor_address"), OptStr("customer_address") >>

GeneralDocumentSchema ==
    << Fld("document_type", "DocumentType", FALSE, JStr("other")),
       OptStr("title"), OptStr("date"),
       OptListStr("parties"), OptListStr("addresses"), OptListStr("phone_numbers"),
       OptListStr("email_addresses"),
       Fld("amounts", "List[float]", TRUE, JList(<<>>)),
       OptListStr("dates"),
       Fld("key_information", "Dict[str, Any]", TRUE, JObj(EmptyMap)) >>

\* the schema classes by name
SchemaClasses ==
    [ BankStatementSchema |-> BankStatementSchema,
      InsuranceClaimSchema |-> InsuranceClaimSchema,
      AccidentClaimSchema |-> AccidentClaimSchema,
      InvoiceSchema |-> InvoiceSchema,
      GeneralDocumentSchema |-> GeneralDocumentSchema ]

\* a registry without the default: schema_mapping.get(doc_type) is None for a
\* type the mapping does not list
get_schema_for_document_type_no_default(doc_type) ==
    CASE doc_type = "bank_statement" -> "BankStatementSchema"
      [] doc_type = "insurance_form" -> "InsuranceClaimSchema"
      [] doc_type = "accident_claim" -> "AccidentClaimSchema"
      [] doc_type = "invoice" -> "InvoiceSchema"
      [] doc_type = "other" -> "GeneralDocumentSchema"
      [] OTHER -> "NoneType"

\* schema_mapping.get(doc_type, GeneralDocumentSchema): the name of the class
get_schema_for_document_type(doc_type) ==
    CASE doc_type = "bank_statement" -> "BankStatementSchema"
      [] doc_type = "insurance_form" -> "InsuranceClaimSchema"
      [] doc_type = "accident_claim" -> "AccidentClaimSchema"
      [] doc_type = "invoice" -> "InvoiceSchema"
      [] doc_type = "other" -> "GeneralDocumentSchema"
      [] OTHER -> "GeneralDocumentSchema"

\* the extraction prompts of PromptTemplates, by name
ExtractionPrompts ==
    { "BANK_STATEMENT_PROMPT", "INSURANCE_FORM_PROMPT", "ACCIDENT_CLAIM_PROMPT",
      "INVOICE_PROMPT", "GENERAL_DOCUMENT_PROMPT" }

\* a lookup that knows the general prompt only
PromptTemplates_get_extraction_prompt_general_only(doc_type) ==
    "GENERAL_DOCUMENT_PROMPT"

\* PromptTemplates.get_extraction_prompt:
\* prompt_mapping.get(document_type, cls.GENERAL_DOCUMENT_PROMPT)
PromptTemplates_get_extraction_prompt(doc_type) ==
    CASE doc_type = "bank_statement" -> "BANK_STATEMENT_PROMPT"
      [] doc_type = "insurance_form" -> "INSURANCE_FORM_PROMPT"
      [] doc_type = "accident_claim" -> "ACCIDENT_CLAIM_PROMPT"
      [] doc_type = "invoice" -> "INVOICE_PROMPT"
      [] doc_type = "other" -> "GENERAL_DOCUMENT_PROMPT"
      [] OTHER -> "GENERAL_DOCUMENT_PROMPT"

\* the schema each extraction prompt spells out for the model to fill in
PromptSchema ==
    [ BANK_STATEMENT_PROMPT |-> BankStatementSchema,
      INSURANCE_FORM_PROMPT |-> InsuranceClaimSchema,
      ACCIDENT_CLAIM_PROMPT |-> AccidentClaimSchema,
      INVOICE_PROMPT |-> InvoiceSchema,
      GENERAL_DOCUMENT_PROMPT |-> GeneralDocumentSchema ]

FieldNames(schema) == { schema[i].name : i \in 1..Len(schema) }

FieldOf(schema, name) == schema[CHOOSE i \in 1..Len(schema) : schema[i].name = name]

----------------------------------------------------------------------------
(* Validation: what pydantic does when schema_class is called with the keys
   of json_data as its keyword arguments *)

\* the strings float() reads as a number, with the number (in thousandths)
NumericStrings == { <<"3000.00", 3000000>> }

Invalid == [ok |-> FALSE]

Valid(v) == [ok |-> TRUE, v |-> v]

\* a str, a float or an enum annotation applied to a value that is not None:
\* a float takes a float, an int and a numeric string; a str takes only a str
ValidateScalar(type, v) ==
    CASE type = "str" -> IF v.k = "str" THEN Valid(v) ELSE Invalid
      [] type = "float" ->
            IF v.k = "num" THEN Valid(v)
            ELSE IF v.k = "int" THEN Valid(JNum(v.n))
            ELSE IF v.k = "str" /\ (\E p \in NumericStrings : p[1] = v.s)
                 THEN Valid(JNum((CHOOSE p \in NumericStrings : p[1] = v.s)[2]))
            ELSE Invalid
      [] type = "TransactionType" ->
            IF v.k = "str" /\ v.s \in TransactionType THEN Valid(v) ELSE Invalid
      [] type = "DocumentType" ->
            IF v.k = "str" /\ v.s \in DocumentType THEN Valid(v) ELSE Invalid
      [] OTHER -> Invalid

\* a field whose annotation holds no list and no dict
ValidateFlat(f, v) ==
    IF v.k = "null" THEN (IF f.nullable THEN Valid(JNull) ELSE Invalid)
    ELSE ValidateScalar(f.type, v)

\* a model of flat fields built from the keys of the map m: a missing key gets the
\* default, a key the schema does not declare is ignored, and one invalid field
\* fails the whole model
ValidateFlatModel(schema, m) ==
    LET res == [n \in FieldNames(schema) |->
                   IF n \in DOMAIN m THEN ValidateFlat(FieldOf(schema, n), m[n])
                   ELSE Valid(FieldOf(schema, n).default)]
    IN  IF \E n \in FieldNames(schema) : ~res[n].ok THEN Invalid
        ELSE Valid(JObj([n \in FieldNames(schema) |-> res[n].v]))

\* a list whose elements are validated one by one
ValidateList(type, v) ==
    IF v.k # "list" THEN Invalid
    ELSE LET res == [i \in 1..Len(v.xs) |->
                        IF type = "List[Transaction]"
                        THEN (IF v.xs[i].k = "obj"
                              THEN ValidateFlatModel(Transaction, v.xs[i].m)
                              ELSE Invalid)
                        ELSE IF v.xs[i].k = "null" THEN Invalid
                        ELSE ValidateScalar(IF type = "List[float]" THEN "float" ELSE "str",
                                            v.xs[i])]
         IN  IF \E i \in 1..Len(v.xs) : ~res[i].ok THEN Invalid
             ELSE Valid(JList([i \in 1..Len(v.xs) |-> res[i].v]))

\* one declared field applied to the value of its key
ValidateField(f, v) ==
    IF v.k = "null" THEN (IF f.nullable THEN Valid(JNull) ELSE Invalid)
    ELSE IF f.type \in {"List[Transaction]", "List[str]", "List[float]"}
         THEN ValidateList(f.type, v)
    ELSE IF f.type = "Dict[str, Any]" THEN (IF v.k = "obj" THEN Valid(v) ELSE Invalid)
    ELSE ValidateScalar(f.type, v)

\* a validation that requires every declared key to be present
Validate_required_fields(schema, m) ==
    LET res == [n \in FieldNames(schema) |->
                   IF n \in DOMAIN m THEN ValidateField(FieldOf(schema, n), m[n])
                   ELSE Invalid]
    IN  IF \E n \in FieldNames(schema) : ~res[n].ok THEN [err |-> TRUE]
        ELSE [err |-> FALSE, rec |-> [n \in FieldNames(schema) |-> res[n].v]]

\* a validation that rejects a key the schema does not declare
Validate_forbid_extra(schema, m) ==
    LET res == [n \in FieldNames(schema) |->
                   IF n \in DOMAIN m THEN ValidateField(FieldOf(schema, n), m[n])
                   ELSE Valid(FieldOf(schema, n).default)]
    IN  IF (\E n \in FieldNames(schema) : ~res[n].ok) \/ ~(DOMAIN m \subseteq FieldNames(schema))
        THEN [err |-> TRUE]
        ELSE [err |-> FALSE, rec |-> [n \in FieldNames(schema) |-> res[n].v]]

\* schema_class called with the keys of m: the record of the class, or a
\* ValidationError
Validate(schema, m) ==
    LET res == [n \in FieldNames(schema) |->
                   IF n \in DOMAIN m THEN ValidateField(FieldOf(schema, n), m[n])
                   ELSE Valid(FieldOf(schema, n).default)]
    IN  IF \E n \in FieldNames(schema) : ~res[n].ok THEN [err |-> TRUE]
        ELSE [err |-> FALSE, rec |-> [n \in FieldNames(schema) |-> res[n].v]]

----------------------------------------------------------------------------
(* PromptManager.classify_document_type.  The text of a classification is a
   sequence of characters. *)

LowerCase == << "a", "b", "c", "d", "e", "f", "g", "h", "i", "j", "k", "l", "m", "n", "o", "p", "q", "r", "s", "t", "u", "v", "w", "x", "y", "z" >>

UpperCase == << "A", "B", "C", "D", "E", "F", "G", "H", "I", "J", "K", "L", "M", "N", "O", "P", "Q", "R", "S", "T", "U", "V", "W", "X", "Y", "Z" >>

\* str.lower of one character
LowerChar(c) ==
    IF \E i \in 1..26 : UpperCase[i] = c
    THEN LowerCase[CHOOSE i \in 1..26 : UpperCase[i] = c]
    ELSE c

\* str.upper of one character
UpperChar(c) ==
    IF \E i \in 1..26 : LowerCase[i] = c
    THEN UpperCase[CHOOSE i \in 1..26 : LowerCase[i] = c]
    ELSE c

lower(t) == [i \in 1..Len(t) |-> LowerChar(t[i])]

upper(t) == [i \in 1..Len(t) |-> UpperChar(t[i])]

\* lines 51-65: the table, in the order it is written
type_mapping ==
    << << << "b", "a", "n", "k", "_", "s", "t", "a", "t", "e", "m", "e", "n", "t" >>, "bank_statement" >>,
       << << "b", "a", "n", "k", " ", "s", "t", "a", "t", "e", "m", "e", "n", "t" >>, "bank_statement" >>,
       << << "s", "t", "a", "t", "e", "m", "e", "n", "t" >>, "bank_statement" >>,
       << << "i", "n", "s", "u", "r", "a", "n", "c", "e", "_", "f", "o", "r", "m" >>, "insurance_form" >>,
       << << "i", "n", "s", "u", "r", "a", "n", "c", "e", " ", "f", "o", "r", "m" >>, "insurance_form" >>,
       << << "i", "n", "s", "u", "r", "a", "n", "c", "e" >>, "insurance_form" >>,
       << << "a", "c", "c", "i", "d", "e", "n", "t", "_", "c", "l", "a", "i", "m" >>, "accident_claim" >>,
       << << "a", "c", "c", "i", "d", "e", "n", "t", " ", "c", "l", "a", "i", "m" >>, "accident_claim" >>,
       << << "c", "l", "a", "i", "m" >>, "accident_claim" >>,
       << << "i", "n", "v", "o", "i", "c", "e" >>, "invoice" >>,
       << << "r", "e", "c", "e", "i", "p", "t" >>, "invoice" >>,
       << << "b", "i", "l", "l" >>, "invoice" >>,
       << << "o", "t", "h", "e", "r" >>, "other" >> >>

\* t holds p as a run of consecutive characters
IsSubstring(p, t) == \E i \in 0..(Len(t) - Len(p)) : SubSeq(t, i + 1, i + Len(p)) = p

\* a classifier that compares without lower-casing
classify_document_type_no_lower(text) ==
    LET result == strip(text)
        hits == { i \in 1..Len(type_mapping) : type_mapping[i][1] = result }
    IN  IF hits # {} THEN type_mapping[CHOOSE i \in hits : TRUE][2] ELSE "other"

\* a classifier that takes the first table entry whose phrase the text contains
classify_document_type_substring(text) ==
    LET result == lower(strip(text))
        hits == { i \in 1..Len(type_mapping) : IsSubstring(type_mapping[i][1], result) }
    IN  IF hits # {}
        THEN type_mapping[CHOOSE i \in hits : \A j \in hits : i <= j][2]
        ELSE "other"

\* lines 48 and 67: type_mapping.get(result, DocumentType.OTHER)
classify_document_type(text) ==
    LET result == lower(strip(text))
        hits == { i \in 1..Len(type_mapping) : type_mapping[i][1] = result }
    IN  IF hits # {} THEN type_mapping[CHOOSE i \in hits : TRUE][2] ELSE "other"

\* texts that hold no phrase of the table
UnrelatedTexts ==
    << << "u", "n", "k", "n", "o", "w", "n", " ", "d", "o", "c", "u", "m", "e", "n", "t" >>,
       << "x", "y", "z", "1", "2", "3" >>,
       << >> >>

----------------------------------------------------------------------------
(* PromptManager.parse_structured_response *)

Raw(text) == [tag |-> "Raw", text |-> text]

Structured(cls, rec) == [tag |-> "Structured", cls |-> cls, rec |-> rec]

Raised(exc) == [tag |-> "Raised", exc |-> exc]

\* the exception classes that derive from Exception
ExceptionClasses == { "JSONDecodeError", "TypeError", "ValidationError", "AttributeError" }

\* a cleaning that strips the leading marker only
CleanResponse_keeps_trailing_fence(text) ==
    LET c1 == strip(text)
        c2 == IF startswith(c1, FenceJson) THEN Drop(c1, 7) ELSE c1
    IN  strip(c2)

\* lines 128-133: the response without its surrounding blanks and fence markers
CleanResponse(text) ==
    LET c1 == strip(text)
        c2 == IF startswith(c1, FenceJson) THEN Drop(c1, 7) ELSE c1
        c3 == IF endswith(c2, Fence) THEN Take(c2, Len(c2) - 3) ELSE c2
    IN  strip(c3)

\* lines 127-145, the body of the try: the record, or the exception it raises
\* (calling what is no class, or a class with ** of a value that is no mapping,
\* is a TypeError)
TryParse(text, doc_type) ==
    LET json_data == json_loads(CleanResponse(text))
        schema_class == get_schema_for_document_type(doc_type)
    IN  IF json_data.err THEN [exc |-> "JSONDecodeError"]
        ELSE IF schema_class \notin DOMAIN SchemaClasses THEN [exc |-> "TypeError"]
        ELSE IF json_data.v.k # "obj" THEN [exc |-> "TypeError"]
        ELSE LET structured_data == Validate(SchemaClasses[schema_class], json_data.v.m)
             IN  IF structured_data.err THEN [exc |-> "ValidationError"]
                 ELSE [exc |-> "none",
                       value |-> Structured(schema_class, structured_data.rec)]

\* a parser whose only handler is the one for JSONDecodeError
parse_structured_response_narrow_except(self, text, doc_type) ==
    IF ~self.enable_structured_extraction THEN Raw(text)
    ELSE LET r == TryParse(text, doc_type)
         IN  IF r.exc = "none" THEN r.value
             ELSE IF r.exc = "JSONDecodeError" THEN Raw(text)
             ELSE Raised(r.exc)

\* a parser whose handlers return the cleaned text
parse_structured_response_returns_cleaned(self, text, doc_type) ==
    IF ~self.enable_structured_extraction THEN Raw(text)
    ELSE LET r == TryParse(text, doc_type)
         IN  IF r.exc = "none" THEN r.value
             ELSE IF r.exc \in ExceptionClasses THEN Raw(CleanResponse(text))
             ELSE Raised(r.exc)

\* lines 123-152: the two handlers return the response text as it was passed in
parse_structured_response(self, text, doc_type) ==
    IF ~self.enable_structured_extraction THEN Raw(text)
    ELSE LET r == TryParse(text, doc_type)
         IN  IF r.exc = "none" THEN r.value
             ELSE IF r.exc = "JSONDecodeError" THEN Raw(text)
             ELSE IF r.exc \in ExceptionClasses THEN Raw(text)
             ELSE Raised(r.exc)

----------------------------------------------------------------------------
(* PromptManager.format_output and the markdown templates.  A rendered text is
   a sequence of strings: the symbols of a raw text or of a JSON text, or the
   lines of a markdown text. *)

Returned(text) == [tag |-> "Returned", text |-> text]

Digit(d) == ToString(d)

\* format(x, ".2f") of a number given in thousandths: two decimals, a tie
\* rounded to the even hundredth (the ties in use are exact binary fractions)
Fmt2f(n) ==
    LET a == IF n < 0 THEN 0 - n ELSE n
        q == a \div 10
        r == a % 10
        h == IF r > 5 \/ (r = 5 /\ q % 2 = 1) THEN q + 1 ELSE q
    IN  (IF n < 0 THEN "-" ELSE "") \o ToString(h \div 100) \o "."
        \o Digit((h \div 10) % 10) \o Digit(h % 10)

\* f"{x or 'N/A'}" of a str field: None and the empty string give N/A
OrNA(v) == IF v.k = "str" /\ v.s # "" THEN v.s ELSE "N/A"

\* a money text that writes N/A for a field that is None
Money_na_when_absent(v) == IF v.k = "num" THEN "$" \o Fmt2f(v.n) ELSE "N/A"

\* f"${x or 0:.2f}" of a float field: None and zero give $0.00
Money(v) == "$" \o Fmt2f(IF v.k = "num" THEN v.n ELSE 0)

\* a value is truthy unless it is None, an empty list or an empty string
Truthy(v) ==
    CASE v.k = "null" -> FALSE
      [] v.k = "list" -> Len(v.xs) > 0
      [] v.k = "str" -> v.s # ""
      [] OTHER -> TRUE

\* the record has every attribute the template reads; reading one it has not
\* raises AttributeError
HasAttrs(data, names) == names \subseteq DOMAIN data.rec

RECURSIVE TxnRows_latest_first(_, _)
\* rows written from the last transaction of the list to the first
TxnRows_latest_first(txns, i) ==
    IF i > Len(txns) THEN <<>>
    ELSE TxnRows_latest_first(txns, i + 1)
         \o << "| " \o OrNA(txns[i].m.date) \o " | " \o OrNA(txns[i].m.description)
               \o " | " \o Money(txns[i].m.amount) \o " | " \o Money(txns[i].m.balance)
               \o " |" >>

RECURSIVE TxnRows(_, _)
\* lines 208-209: one row per transaction, in list order
TxnRows(txns, i) ==
    IF i > Len(txns) THEN <<>>
    ELSE << "| " \o OrNA(txns[i].m.date) \o " | " \o OrNA(txns[i].m.description)
            \o " | " \o Money(txns[i].m.amount) \o " | " \o Money(txns[i].m.balance) \o " |" >>
         \o TxnRows(txns, i + 1)

_format_bank_statement_markdown(data) ==
    IF ~HasAttrs(data, {"account_holder", "account_number", "bank_name", "statement_period",
                        "opening_balance", "closing_balance", "transactions"})
    THEN Raised("AttributeError")
    ELSE LET d == data.rec IN
         Returned(<< "# Bank Statement", "",
                     "**Account Holder:** " \o OrNA(d.account_holder),
                     "**Account Number:** " \o OrNA(d.account_number),
                     "**Bank:** " \o OrNA(d.bank_name),
                     "**Period:** " \o OrNA(d.statement_period), "",
                     "**Opening Balance:** " \o Money(d.opening_balance),
                     "**Closing Balance:** " \o Money(d.closing_balance), "" >>
                  \o (IF Truthy(d.transactions)
                      THEN << "## Transactions", "",
                              "| Date | Description | Amount | Balance |",
                              "|------|-------------|--------|----------|" >>
                           \o TxnRows(d.transactions.xs, 1)
                      ELSE <<>>))

_format_insurance_markdown(data) ==
    IF ~HasAttrs(data, {"policy_number", "claim_number", "insured_name", "incident_date",
                        "claim_amount", "incident_description"})
    THEN Raised("AttributeError")
    ELSE LET d == data.rec IN
         Returned(<< "# Insurance Form", "",
                     "**Policy Number:** " \o OrNA(d.policy_number),
                     "**Claim Number:** " \o OrNA(d.claim_number),
                     "**Insured Name:** " \o OrNA(d.insured_name),
                     "**Incident Date:** " \o OrNA(d.incident_date),
                     "**Claim Amount:** " \o Money(d.claim_amount), "" >>
                  \o (IF Truthy(d.incident_description)
                      THEN << "**Incident Description:**", d.incident_description.s, "" >>
                      ELSE <<>>))

_format_accident_claim_markdown(data) ==
    IF ~HasAttrs(data, {"claim_number", "claimant_name", "accident_date", "accident_location",
                        "damage_amount", "accident_description"})
    THEN Raised("AttributeError")
    ELSE LET d == data.rec IN
         Returned(<< "# Accident Claim", "",
                     "**Claim Number:** " \o OrNA(d.claim_number),
                     "**Claimant:** " \o OrNA(d.claimant_name),
                     "**Accident Date:** " \o OrNA(d.accident_date),
                     "**Location:** " \o OrNA(d.accident_location),
                     "**Damage Amount:** " \o Money(d.damage_amount), "" >>
                  \o (IF Truthy(d.accident_description)
                      THEN << "**Description:**", d.accident_description.s, "" >>
                      ELSE <<>>))

_format_invoice_markdown(data) ==
    IF ~HasAttrs(data, {"invoice_number", "invoice_date", "vendor_name", "customer_name",
                        "total_amount"})
    THEN Raised("AttributeError")
    ELSE LET d == data.rec IN
         Returned(<< "# Invoice", "",
                     "**Invoice Number:** " \o OrNA(d.invoice_number),
                     "**Date:** " \o OrNA(d.invoice_date),
                     "**Vendor:** " \o OrNA(d.vendor_name),
                     "**Customer:** " \o OrNA(d.customer_name),
                     "**Total Amount:** " \o Money(d.total_amount), "" >>)

RECURSIVE JoinStrs(_, _)
\* ', '.join(xs) of a list of str
JoinStrs(xs, i) ==
    IF i > Len(xs) THEN ""
    ELSE (IF i > 1 THEN ", " ELSE "") \o xs[i].s \o JoinStrs(xs, i + 1)

RECURSIVE JoinAmounts(_, _)
\* ', '.join(f'${amt:.2f}' for amt in xs)
JoinAmounts(xs, i) ==
    IF i > Len(xs) THEN ""
    ELSE (IF i > 1 THEN ", " ELSE "") \o "$" \o Fmt2f(xs[i].n) \o JoinAmounts(xs, i + 1)

_format_general_markdown(data) ==
    IF ~HasAttrs(data, {"title", "date", "parties", "amounts"})
    THEN Raised("AttributeError")
    ELSE LET d == data.rec IN
         Returned(<< "# Document", "",
                     "**Title:** " \o OrNA(d.title),
                     "**Date:** " \o OrNA(d.date), "" >>
                  \o (IF Truthy(d.parties)
                      THEN << "**Parties:** " \o JoinStrs(d.parties.xs, 1) >> ELSE <<>>)
                  \o (IF Truthy(d.amounts)
                      THEN << "**Amounts:** " \o JoinAmounts(d.amounts.xs, 1) >> ELSE <<>>))

\* the text a float and an int are written as
NumberText(v) == (CHOOSE p \in NumberLexemes : p[2] = v.k /\ p[3] = v.n)[1]

\* the keys of a map in the order they are written: declared fields in schema
\* order, then the others
RECURSIVE KeysInOrder(_, _)
KeysInOrder(keys, schema) ==
    IF keys = {} THEN <<>>
    ELSE LET declared == { i \in 1..Len(schema) : schema[i].name \in keys }
             key == IF declared # {}
                    THEN schema[CHOOSE i \in declared : \A j \in declared : i <= j].name
                    ELSE CHOOSE x \in keys : TRUE
         IN  << key >> \o KeysInOrder(keys \ {key}, schema)

RECURSIVE DumpValue(_)
RECURSIVE DumpItems(_, _)
RECURSIVE DumpMembers(_, _, _)
\* the JSON text of a value
DumpValue(v) ==
    CASE v.k = "null" -> << "null" >>
      [] v.k \in {"num", "int"} -> << NumberText(v) >>
      [] v.k = "str" -> << Quote(v.s) >>
      [] v.k = "list" -> << "[" >> \o DumpItems(v.xs, 1) \o << "]" >>
      [] v.k = "obj" -> << "{" >> \o DumpMembers(v.m, KeysInOrder(DOMAIN v.m, Transaction), 1)
                        \o << "}" >>

DumpItems(xs, i) ==
    IF i > Len(xs) THEN <<>>
    ELSE (IF i > 1 THEN << ",", "\n" >> ELSE <<>>) \o DumpValue(xs[i]) \o DumpItems(xs, i + 1)

DumpMembers(m, keys, i) ==
    IF i > Len(keys) THEN <<>>
    ELSE (IF i > 1 THEN << ",", "\n" >> ELSE <<>>)
         \o << Quote(keys[i]), ":", " " >> \o DumpValue(m[keys[i]])
         \o DumpMembers(m, keys, i + 1)

\* a dump that leaves the transactions out
model_dump_json_without_transactions(data) ==
    << "{", "\n" >>
    \o DumpMembers(data.rec, KeysInOrder(DOMAIN data.rec \ {"transactions"},
                                         SchemaClasses[data.cls]), 1)
    \o << "\n", "}" >>

\* data.model_dump_json(indent=2): every field of the class, in schema order
model_dump_json(data) ==
    << "{", "\n" >>
    \o DumpMembers(data.rec, KeysInOrder(DOMAIN data.rec, SchemaClasses[data.cls]), 1)
    \o << "\n", "}" >>

\* str(data): the fields as name=value, in schema order (values written as in
\* the JSON text)
str(data) ==
    << data.cls >> \o DumpMembers(data.rec, KeysInOrder(DOMAIN data.rec, SchemaClasses[data.cls]), 1)

\* lines 177-191: the template is chosen by the document_type the record carries
_convert_to_markdown(data) ==
    IF "document_type" \in DOMAIN data.rec
    THEN LET doc_type == data.rec.document_type.s IN
         CASE doc_type = "bank_statement" -> _format_bank_statement_markdown(data)
           [] doc_type = "insurance_form" -> _format_insurance_markdown(data)
           [] doc_type = "accident_claim" -> _format_accident_claim_markdown(data)
           [] doc_type = "invoice" -> _format_invoice_markdown(data)
           [] OTHER -> _format_general_markdown(data)
    ELSE Returned(str(data))

\* the formats a caller asks for
OutputFormats == { "markdown", "json", "text", "html" }

\* a renderer that refuses a format it does not know
format_output_rejects_unknown(data, fmt) ==
    IF data.tag = "Raw" THEN Returned(data.text)
    ELSE IF fmt = "json" THEN Returned(model_dump_json(data))
    ELSE IF fmt = "markdown" THEN _convert_to_markdown(data)
    ELSE IF fmt = "text" THEN Returned(str(data))
    ELSE Raised("ValueError")

\* a renderer that trims a raw text before returning it
format_output_trims_raw(data, fmt) ==
    IF data.tag = "Raw" THEN Returned(strip(data.text))
    ELSE IF fmt = "json" THEN Returned(model_dump_json(data))
    ELSE IF fmt = "markdown" THEN _convert_to_markdown(data)
    ELSE Returned(str(data))

\* lines 165-173
format_output(data, fmt) ==
    IF data.tag = "Raw" THEN Returned(data.text)
    ELSE IF fmt = "json" THEN Returned(model_dump_json(data))
    ELSE IF fmt = "markdown" THEN _convert_to_markdown(data)
    ELSE Returned(str(data))

----------------------------------------------------------------------------
(* PromptManager.get_extraction_prompt and get_processing_prompts.  A prompt of
   PromptTemplates is the name of its constant; a custom prompt is its text. *)

\* the custom prompts of a caller: None, the empty text, a text
CustomPrompts == { JNull, JStr(""), JStr("Extract only account numbers and balances") }

\* if custom_prompt: return custom_prompt; then the prompt of the type, or the
\* markdown prompt when structured extraction is off
get_extraction_prompt(self, doc_type, custom) ==
    IF Truthy(custom) THEN custom.s
    ELSE IF self.enable_structured_extraction
         THEN PromptTemplates_get_extraction_prompt(doc_type)
         ELSE "MARKDOWN_FALLBACK_PROMPT"

\* the pair (extraction_prompt, classification_prompt); None where a prompt is
\* not to be used or is not known yet
get_processing_prompts(self, custom) ==
    LET classification_prompt ==
            IF self.enable_classification /\ ~Truthy(custom)
            THEN JStr("CLASSIFICATION_PROMPT") ELSE JNull
        extraction ==
            IF ~self.enable_classification \/ Truthy(custom)
            THEN (IF Truthy(custom) THEN custom ELSE JStr("MARKDOWN_FALLBACK_PROMPT"))
            ELSE JNull
    IN  << extraction, classification_prompt >>

----------------------------------------------------------------------------
(* The responses the model is given: a JSON body and its wrapping *)

\* the most declared keys a generated object holds
MaxFields == 2

\* the most transactions a generated list holds
MaxTxns == 2

\* a key of no schema, as a custom prompt asks for
ExtraKey == "loyalty_points"

Pair(key, kind, arg) == [key |-> key, kind |-> kind, arg |-> arg]

\* the key: value pairs an object for the schema may hold.  kind says what the
\* value is: "good" fits the annotation, "null" is null, "bad" fails the type
\* check (a good float is 1234.5, or 0.0 when arg is "zero"), "coerced" is a
\* numeric string for a float, "enum" is the DocumentType
\* value arg, "extra" is an undeclared key
PairsOf(schema) ==
    { Pair(schema[i].name, kind, "") :
        i \in 2..Len(schema), kind \in {"good", "null", "bad"} }
    \cup { Pair(schema[i].name, kind, arg) :
            i \in { j \in 2..Len(schema) : schema[j].type = "float" },
            <<kind, arg>> \in { <<"coerced", "">>, <<"good", "zero">> } }
    \cup { Pair("document_type", kind, "") : kind \in {"null", "bad"} }
    \cup { Pair("document_type", "enum", d) : d \in DocumentType }
    \cup { Pair(ExtraKey, "extra", "") }

\* the place of a key in the generated object: schema order, the extra key last
KeyIndex(schema, key) ==
    IF key = ExtraKey THEN Len(schema) + 1
    ELSE CHOOSE i \in 1..Len(schema) : schema[i].name = key

RECURSIVE PairSeqs(_, _)
\* the sequences of at most n pairs with keys in increasing place
PairSeqs(schema, n) ==
    IF n = 0 THEN { <<>> }
    ELSE LET shorter == PairSeqs(schema, n - 1)
         IN  shorter \cup
             { Append(q, p) : q \in { r \in shorter : Len(r) = n - 1 }, p \in PairsOf(schema) }

IncreasingKeys(schema, q) ==
    \A i \in 1..(Len(q) - 1) : KeyIndex(schema, q[i].key) < KeyIndex(schema, q[i + 1].key)

\* the bodies the model writes when it is given the extraction prompt of the
\* type: objects of at most n pairs of the schema the prompt spells out, JSON
\* values that are no object, and broken JSON
Bodies(doc_type, n) ==
    LET schema == PromptSchema[PromptTemplates_get_extraction_prompt(doc_type)]
    IN  { [shape |-> "object", pairs |-> q] :
            q \in { r \in PairSeqs(schema, n) : IncreasingKeys(schema, r) } }
        \cup { [shape |-> sh, pairs |-> <<>>] :
                sh \in {"empty", "truncated", "trailing", "list", "number", "null", "string"} }

\* the text of one good transaction
TxnText(i) ==
    IF i % 2 = 1
    THEN << "{", Quote("date"), ":", " ", Quote("John Doe"), ",", " ",
            Quote("amount"), ":", " ", "3000.0", ",", " ",
            Quote("transaction_type"), ":", " ", Quote("credit"), "}" >>
    ELSE << "{", Quote("amount"), ":", " ", "-150.0", ",", " ",
            Quote("balance"), ":", " ", "null", ",", " ",
            Quote(ExtraKey), ":", " ", "7", "}" >>

RECURSIVE TxnsText(_)
TxnsText(n) ==
    IF n = 0 THEN <<>>
    ELSE IF n = 1 THEN TxnText(1)
    ELSE TxnsText(n - 1) \o << ",", " " >> \o TxnText(n)

\* the text of the value of a pair
ValueText(schema, p) ==
    LET type == IF p.kind = "extra" THEN "extra" ELSE FieldOf(schema, p.key).type IN
    CASE p.kind = "null" -> << "null" >>
      [] p.kind = "extra" -> << "7" >>
      [] p.kind = "enum" -> << Quote(p.arg) >>
      [] p.kind = "coerced" -> << Quote("3000.00") >>
      [] p.kind = "good" ->
           (CASE type = "str" -> << Quote("John Doe") >>
              [] type = "float" -> << IF p.arg = "zero" THEN "0.0" ELSE "1234.5" >>
              [] type = "List[str]" -> << "[", Quote("John Doe"), "]" >>
              [] type = "List[float]" -> << "[", "1234.5", ",", " ", "7", "]" >>
              [] type = "List[Transaction]" -> << "[" >> \o TxnsText(MaxTxns) \o << "]" >>
              [] type = "Dict[str, Any]" -> << "{", Quote(ExtraKey), ":", " ", "7", "}" >>)
      [] p.kind = "bad" ->
           (CASE type = "str" -> << "7" >>
              [] type = "float" -> << Quote("John Doe") >>
              [] type = "DocumentType" -> << Quote("John Doe") >>
              [] type = "List[str]" -> << "[", "7", "]" >>
              [] type = "List[float]" -> << "[", Quote("John Doe"), "]" >>
              [] type = "List[Transaction]" ->
                    << "[", "{", Quote("amount"), ":", " ", Quote("John Doe"), "}", "]" >>
              [] type = "Dict[str, Any]" -> << "[", "]" >>)

RECURSIVE PairsText(_, _, _)
PairsText(schema, q, i) ==
    IF i > Len(q) THEN <<>>
    ELSE (IF i > 1 THEN << ",", " " >> ELSE <<>>)
         \o << Quote(q[i].key), ":", " " >> \o ValueText(schema, q[i])
         \o PairsText(schema, q, i + 1)

\* the text of a body
BodyText(doc_type, b) ==
    LET schema == PromptSchema[PromptTemplates_get_extraction_prompt(doc_type)] IN
    CASE b.shape = "object" -> << "{" >> \o PairsText(schema, b.pairs, 1) \o << "}" >>
      [] b.shape = "empty" -> <<>>
      [] b.shape = "truncated" -> << "{", " ", Quote("account_holder"), ":", " ", Quote("John Doe") >>
      [] b.shape = "trailing" -> << "{", "}", " ", "{", "}" >>
      [] b.shape = "list" -> << "[", "{", "}", "]" >>
      [] b.shape = "number" -> << "7" >>
      [] b.shape = "null" -> << "null" >>
      [] b.shape = "string" -> << Quote("bank_statement") >>

\* the wrappings of a body
Wrappings == { "bare", "fenced", "padded", "lead_only", "trail_only", "blanks" }

Wrap(w, t) ==
    CASE w = "bare" -> t
      [] w = "fenced" -> FenceJson \o << "\n" >> \o t \o << "\n" >> \o Fence
      [] w = "padded" -> << " ", "\n" >> \o FenceJson \o << "\n" >> \o t \o << "\n" >> \o Fence \o << "\n" >>
      [] w = "lead_only" -> FenceJson \o << "\n" >> \o t
      [] w = "trail_only" -> t \o << "\n" >> \o Fence
      [] w = "blanks" -> << " " >> \o t \o << "\n", " " >>

----------------------------------------------------------------------------
(* The caller: a response arrives, is parsed, and the outcome is rendered *)

None == [tag |-> "None"]

NoFile == [tag |-> "NoFile"]

\* no call has been made on the manager
NoCalls == <<>>

\* no prompt has been asked for
NoPrompts ==
    /\ custom_prompt = JNull
    /\ extraction_prompt = "none"
    /\ processing_prompts = <<>>
    /\ memo = NoCalls

\* no PDF is being processed
NoPdf ==
    /\ image_paths = <<>>
    /\ futures = <<>>
    /\ model_calls = <<>>
    /\ results = <<>>
    /\ extracted_pages = <<>>
    /\ output_file = NoFile
    /\ requested_max_workers = 0
    /\ ocr_calls = <<>>
    /\ temp_dir = <<>>

NoBody == [shape |-> "none", pairs |-> <<>>]

NoReply == [entry |-> 0, base |-> <<>>, casing |-> "none", padding |-> "none", context |-> "none"]

Init ==
    /\ pm \in [enable_classification : {TRUE}, enable_structured_extraction : BOOLEAN]
    /\ document_type \in DocumentType
    \* with extraction disabled the response comes back as it is: one field is enough
    /\ body \in Bodies(document_type, IF pm.enable_structured_extraction THEN MaxFields ELSE 1)
    /\ wrapping \in Wrappings
    /\ response_text = Wrap(wrapping, BodyText(document_type, body))
    /\ outcome = None
    /\ output_format = "none"
    /\ rendered = None
    /\ reply = NoReply
    /\ classification_result = <<>>
    /\ classified = "none"
    /\ pc = "received"
    /\ NoPrompts
    /\ NoPdf

Parse ==
    /\ pc = "received"
    /\ outcome' = parse_structured_response(pm, response_text, document_type)
    /\ pc' = IF outcome'.tag = "Raised" THEN "failed" ELSE "parsed"
    /\ UNCHANGED <<pm, document_type, body, wrapping, response_text, output_format,
                   rendered, reply, classification_result, classified, promptVars, pdfVars>>

Format(fmt) ==
    /\ pc = "parsed"
    /\ output_format' = fmt
    /\ rendered' = format_output(outcome, fmt)
    /\ pc' = IF rendered'.tag = "Raised" THEN "failed" ELSE "rendered"
    /\ UNCHANGED <<pm, document_type, body, wrapping, response_text, outcome,
                   reply, classification_result, classified, promptVars, pdfVars>>

Next ==
    \/ Parse
    \/ \E fmt \in OutputFormats : Format(fmt)

Spec == Init /\ [][Next]_vars

----------------------------------------------------------------------------
(* The caller of the classifier: the model's classification is mapped to a type *)

\* the classifications: a phrase of the table or an unrelated text, in a casing,
\* between blanks, inside other text
Replies ==
    { [entry |-> i, base |-> type_mapping[i][1], casing |-> c, padding |-> p, context |-> x] :
        i \in 1..Len(type_mapping), c \in {"lower", "upper", "title"},
        p \in {"none", "lead", "trail", "both"}, x \in {"none", "prefix", "suffix"} }
    \cup
    { [entry |-> 0, base |-> UnrelatedTexts[i], casing |-> c, padding |-> p, context |-> "none"] :
        i \in 1..Len(UnrelatedTexts), c \in {"lower", "upper", "title"},
        p \in {"none", "lead", "trail", "both"} }

Cased(c, t) ==
    CASE c = "upper" -> upper(t)
      [] c = "title" -> [i \in 1..Len(t) |-> IF i = 1 THEN UpperChar(t[i]) ELSE t[i]]
      [] OTHER -> t

InContext(x, t) ==
    CASE x = "prefix" -> << "t", "h", "i", "s", " ", "i", "s", " ", "a", "n", " " >> \o t
      [] x = "suffix" -> t \o << "." >>
      [] OTHER -> t

Padded(p, t) ==
    CASE p = "lead" -> << " ", " " >> \o t
      [] p = "trail" -> t \o << "\n" >>
      [] p = "both" -> << "\n", " " >> \o t \o << " ", "\n" >>
      [] OTHER -> t

ReplyText(r) == Padded(r.padding, InContext(r.context, Cased(r.casing, r.base)))

InitClassify ==
    /\ pm = [enable_classification |-> TRUE, enable_structured_extraction |-> TRUE]
    /\ document_type = "other"
    /\ body = NoBody
    /\ wrapping = "bare"
    /\ response_text = <<>>
    /\ outcome = None
    /\ output_format = "none"
    /\ rendered = None
    /\ reply \in Replies
    /\ classification_result = ReplyText(reply)
    /\ classified = "none"
    /\ pc = "asked"
    /\ NoPrompts
    /\ NoPdf

Classify ==
    /\ pc = "asked"
    /\ classified' = classify_document_type(classification_result)
    /\ pc' = "classified"
    /\ UNCHANGED <<pm, document_type, body, wrapping, response_text, outcome,
                   output_format, rendered, reply, classification_result, promptVars,
                   pdfVars>>

NextClassify == Classify

SpecClassify == InitClassify /\ [][NextClassify]_vars

----------------------------------------------------------------------------
(* The caller that asks for prompts: the processing prompts, the classification
   of the model's reply, the extraction prompt of the classified type *)

InitPrompts ==
    /\ pm \in [enable_classification : BOOLEAN, enable_structured_extraction : BOOLEAN]
    /\ document_type = "other"
    /\ body = NoBody
    /\ wrapping = "bare"
    /\ response_text = <<>>
    /\ outcome = None
    /\ output_format = "none"
    /\ rendered = None
    /\ reply \in Replies
    /\ classification_result = ReplyText(reply)
    /\ classified = "none"
    /\ pc = "start"
    /\ custom_prompt \in CustomPrompts
    /\ extraction_prompt = "none"
    /\ processing_prompts = <<>>
    /\ memo = NoCalls
    /\ NoPdf

GetProcessingPrompts ==
    /\ pc = "start"
    /\ processing_prompts' = get_processing_prompts(pm, custom_prompt)
    /\ pc' = "asked"
    /\ UNCHANGED <<pm, document_type, body, wrapping, response_text, outcome,
                   output_format, rendered, reply, classification_result, classified,
                   custom_prompt, extraction_prompt, memo, pdfVars>>

GetExtractionPrompt ==
    /\ pc = "classified"
    /\ extraction_prompt' = get_extraction_prompt(pm, classified, custom_prompt)
    /\ pc' = "prompted"
    /\ UNCHANGED <<pm, document_type, body, wrapping, response_text, outcome,
                   output_format, rendered, reply, classification_result, classified,
                   custom_prompt, processing_prompts, memo, pdfVars>>

NextPrompts == GetProcessingPrompts \/ Classify \/ GetExtractionPrompt

SpecPrompts == InitPrompts /\ [][NextPrompts]_vars

----------------------------------------------------------------------------
(* GeminiPDFOCR.process_pdf of pdf_ocr.py: the pages of a PDF are handed to a
   pool of worker threads, the results are gathered, sorted and saved.  Page i
   of the model is the page the code numbers i - 1. *)

\* the most pages a PDF has
MaxPages == 3

\* the most workers a caller asks for within the limit of the pool
max_workers == 2

\* the max_workers handed to __init__: none, within the limit, beyond the limit
RequestedWorkers == {0} \cup 1..max_workers \cup {5}

min(a, b) == IF a <= b THEN a ELSE b

\* line 150: self.max_workers = min(max_workers, 4)
self_max_workers == min(requested_max_workers, 4)

\* what the model reads on page i
PageText(i) == "text of page " \o ToString(i)

\* line 166: the attribute is set to None by __init__, so that the hasattr test
\* of lines 282-286 never assigns the default prompt
_cached_prompt == JNull

\* line 288: prompt = custom_prompt or self._cached_prompt
extract_text_from_image_prompt(custom) == IF Truthy(custom) THEN custom ELSE _cached_prompt

\* lines 298-307: the text of the response, or "" when the response is empty or
\* the call raised
extract_text_from_image(i) == { PageText(i), "" }

\* lines 339-351: return i, markdown_text
process_single_image(i, markdown_text) == << i, markdown_text >>

\* line 359: results.sort(key=lambda x: x[0])
sort_results(rs) == SortSeq(rs, LAMBDA a, b : a[1] < b[1])

\* a list that leaves out the pages without text
extracted_pages_of_nonempty(rs) ==
    LET kept == SelectSeq(rs, LAMBDA r : r[2] # "") IN [k \in 1..Len(kept) |-> kept[k][2]]

\* line 360: [result[1] for result in results]
extracted_pages_of(rs) == [k \in 1..Len(rs) |-> rs[k][2]]

RECURSIVE content_parts(_, _)
\* lines 431-436: a heading, the text and a separator for each page
content_parts(pages, i) ==
    IF i > Len(pages) THEN <<>>
    ELSE << "# Page " \o ToString(i), pages[i], "==================================================" >>
         \o content_parts(pages, i + 1)

\* lines 428-440: the file that is written
_save_to_file(pages) ==
    [tag |-> "File",
     content |-> << "<!-- Generated by OCR Processor -->" >> \o content_parts(pages, 1)]

\* a file that was opened for writing and not written
EmptyFile == [tag |-> "File", content |-> <<>>]

Future(state, text) == [state |-> state, text |-> text]

Running == { i \in DOMAIN futures : futures[i].state = "running" }

Queued == { i \in DOMAIN futures : futures[i].state = "queued" }

\* the result iterator of executor.map cancels the calls that have not started
CancelQueued ==
    [i \in DOMAIN futures |->
        IF futures[i].state = "queued" THEN Future("cancelled", "") ELSE futures[i]]

promptState == <<pm, document_type, body, wrapping, response_text, outcome, output_format,
                 rendered, reply, classification_result, classified, promptVars>>

InitPdf ==
    /\ pm = [enable_classification |-> TRUE, enable_structured_extraction |-> TRUE]
    /\ document_type = "other"
    /\ body = NoBody
    /\ wrapping = "bare"
    /\ response_text = <<>>
    /\ outcome = None
    /\ output_format = "none"
    /\ rendered = None
    /\ reply = NoReply
    /\ classification_result = <<>>
    /\ classified = "none"
    /\ pc = "start"
    /\ custom_prompt \in CustomPrompts
    /\ extraction_prompt = "none"
    /\ processing_prompts = <<>>
    /\ memo = NoCalls
    /\ \E n \in 0..MaxPages : image_paths = [i \in 1..n |-> i]
    /\ futures = <<>>
    /\ model_calls = <<>>
    /\ results = <<>>
    /\ extracted_pages = <<>>
    /\ output_file = NoFile
    /\ requested_max_workers \in RequestedWorkers
    /\ ocr_calls = <<>>
    /\ temp_dir = <<>>

\* lines 329-356: no page, return []; else every page is submitted to the pool
Submit ==
    /\ pc = "start"
    /\ IF Len(image_paths) = 0
       THEN pc' = "returned" /\ futures' = futures
       ELSE IF self_max_workers <= 0
       \* ThreadPoolExecutor raises ValueError: max_workers must be greater than 0
       THEN pc' = "raised" /\ futures' = futures
       ELSE /\ pc' = "mapping"
            /\ futures' = [i \in 1..Len(image_paths) |-> Future("queued", "")]
    /\ UNCHANGED <<promptState, procVars, image_paths, model_calls, results, extracted_pages,
                   output_file>>

\* a free worker takes the next call of the queue
RunPage(i) ==
    /\ pc \in {"mapping", "unwinding"}
    /\ i \in Queued
    /\ \A j \in Queued : i <= j
    /\ Cardinality(Running) < self_max_workers
    /\ futures' = [futures EXCEPT ![i] = Future("running", "")]
    /\ UNCHANGED <<promptState, procVars, pc, image_paths, model_calls, results, extracted_pages,
                   output_file>>

\* lines 339-351: the model is called with the image and the prompt, and the call
\* of process_single_image returns
PageDone(i) ==
    /\ i \in Running
    /\ \E markdown_text \in extract_text_from_image(i) :
          futures' = [futures EXCEPT ![i] = Future("done", markdown_text)]
    /\ model_calls' = Append(model_calls, << i, extract_text_from_image_prompt(custom_prompt) >>)
    /\ UNCHANGED <<promptState, procVars, pc, image_paths, results, extracted_pages, output_file>>

\* lines 341-349: the call of process_single_image raises: a print before the
\* model is called or after it, or the call of self.extract_text_from_image
\* itself (a method put in its place that raises, or an exception that is no
\* Exception); process_single_image guards none of them
PageRaises(i) ==
    /\ i \in Running
    /\ futures' = [futures EXCEPT ![i] = Future("raised", "")]
    /\ \E called \in BOOLEAN :
          model_calls' =
              IF called
              THEN Append(model_calls, << i, extract_text_from_image_prompt(custom_prompt) >>)
              ELSE model_calls
    /\ UNCHANGED <<promptState, procVars, pc, image_paths, results, extracted_pages, output_file>>

\* line 356: list(executor.map(...)) takes the result of the next page in the
\* order of submission, or the exception the call raised
TakeResult ==
    /\ pc = "mapping"
    /\ Len(results) < Len(image_paths)
    /\ LET k == Len(results) + 1 IN
       \/ /\ futures[k].state = "done"
          /\ results' = Append(results, process_single_image(k, futures[k].text))
          /\ UNCHANGED <<pc, futures>>
       \/ /\ futures[k].state = "raised"
          /\ pc' = "unwinding"
          /\ futures' = CancelQueued
          /\ results' = results
    /\ UNCHANGED <<promptState, procVars, image_paths, model_calls, extracted_pages, output_file>>

\* the application is interrupted while the main thread waits for a result
Interrupt ==
    /\ pc = "mapping"
    /\ pc' = "unwinding"
    /\ futures' = CancelQueued
    /\ UNCHANGED <<promptState, procVars, image_paths, model_calls, results, extracted_pages,
                   output_file>>

\* an unwinding that saves the pages gathered so far
Propagate_saves_gathered_pages ==
    /\ pc = "unwinding"
    /\ Running = {}
    /\ pc' = "raised"
    /\ output_file' = _save_to_file(extracted_pages_of(results))
    /\ UNCHANGED <<promptState, procVars, image_paths, futures, model_calls, results, extracted_pages>>

\* lines 354-356: the with block waits for the running calls, then the exception
\* leaves process_pdf; nothing between the with block and the return catches it
Propagate ==
    /\ pc = "unwinding"
    /\ Running = {}
    /\ pc' = "raised"
    /\ UNCHANGED <<promptState, procVars, image_paths, futures, model_calls, results, extracted_pages,
                   output_file>>

\* lines 358-366: the results are sorted, the texts taken, the file saved and
\* the list returned; _save_to_file logs and raises again what it catches
Assemble ==
    /\ pc = "mapping"
    /\ Len(results) = Len(image_paths)
    /\ LET pages == extracted_pages_of(sort_results(results)) IN
       \/ /\ output_file' = _save_to_file(pages)
          /\ extracted_pages' = pages
          /\ pc' = "returned"
       \/ /\ output_file' \in { output_file, EmptyFile }
          /\ extracted_pages' = extracted_pages
          /\ pc' = "save_failed"
    /\ UNCHANGED <<promptState, procVars, image_paths, futures, model_calls, results>>

NextPdf ==
    \/ Submit
    \/ \E i \in 1..MaxPages : RunPage(i)
    \/ \E i \in 1..MaxPages : PageDone(i)
    \/ \E i \in 1..MaxPages : PageRaises(i)
    \/ TakeResult
    \/ Interrupt
    \/ Propagate
    \/ Assemble

SpecPdf == InitPdf /\ [][NextPdf]_vars

----------------------------------------------------------------------------
(* The caller with a complete bank statement: every field of the schema and of
   every transaction is populated *)

FullStrings == { "John Doe", "Jane Roe" }

\* number literals: floats, a negative one and an int
FullNumbers == { "1234.5", "-150.0", "7" }

\* complete transactions; their dates are not in calendar order
FullTxnPool ==
    << [date |-> "2024-02-01", description |-> "John Doe", amount |-> "3000.0",
        balance |-> "1234.5", transaction_type |-> "credit", reference |-> "Jane Roe"],
       [date |-> "2024-01-15", description |-> "Jane Roe", amount |-> "-150.0",
        balance |-> "7", transaction_type |-> "debit", reference |-> "John Doe"],
       [date |-> "2024-01-15", description |-> "loyalty_points", amount |-> "2.125",
        balance |-> "0.0", transaction_type |-> "fee", reference |-> "3000.00"] >>

\* the lists of at most n transactions, each an index of the pool
TxnLists(n) == UNION { [1..k -> 1..Len(FullTxnPool)] : k \in 0..n }

FullBodies ==
    { [shape |-> "full", pairs |-> <<>>, holder |-> h, nums |-> nm, txns |-> tx] :
        h \in FullStrings,
        nm \in [{"opening_balance", "closing_balance", "total_credits", "total_debits"}
                  -> FullNumbers],
        tx \in TxnLists(MaxTxns) }

FullTxnText(t) ==
    << "{", Quote("date"), ":", " ", Quote(t.date), ",", " ",
       Quote("description"), ":", " ", Quote(t.description), ",", " ",
       Quote("amount"), ":", " ", t.amount, ",", " ",
       Quote("balance"), ":", " ", t.balance, ",", " ",
       Quote("transaction_type"), ":", " ", Quote(t.transaction_type), ",", " ",
       Quote("reference"), ":", " ", Quote(t.reference), "}" >>

RECURSIVE FullTxnsText(_, _)
FullTxnsText(tx, i) ==
    IF i > Len(tx) THEN <<>>
    ELSE (IF i > 1 THEN << ",", " " >> ELSE <<>>) \o FullTxnText(FullTxnPool[tx[i]])
         \o FullTxnsText(tx, i + 1)

FullValueText(b, f) ==
    CASE f.name = "document_type" -> << Quote("bank_statement") >>
      [] f.name = "account_holder" -> << Quote(b.holder) >>
      [] f.type = "str" -> << Quote("John Doe") >>
      [] f.type = "float" -> << b.nums[f.name] >>
      [] f.type = "List[Transaction]" -> << "[" >> \o FullTxnsText(b.txns, 1) \o << "]" >>

RECURSIVE FullPairsText(_, _)
FullPairsText(b, i) ==
    IF i > Len(BankStatementSchema) THEN <<>>
    ELSE (IF i > 1 THEN << ",", " " >> ELSE <<>>)
         \o << Quote(BankStatementSchema[i].name), ":", " " >>
         \o FullValueText(b, BankStatementSchema[i])
         \o FullPairsText(b, i + 1)

FullBodyText(b) == << "{" >> \o FullPairsText(b, 1) \o << "}" >>

InitRoundTrip ==
    /\ pm = [enable_classification |-> TRUE, enable_structured_extraction |-> TRUE]
    /\ document_type = "bank_statement"
    /\ body \in FullBodies
    /\ wrapping \in {"bare", "fenced"}
    /\ response_text = Wrap(wrapping, FullBodyText(body))
    /\ outcome = None
    /\ output_format = "none"
    /\ rendered = None
    /\ reply = NoReply
    /\ classification_result = <<>>
    /\ classified = "none"
    /\ pc = "received"
    /\ NoPrompts
    /\ NoPdf

SpecRoundTrip == InitRoundTrip /\ [][Next]_vars

----------------------------------------------------------------------------
(* One PromptManager that is called again and again: classify, parse, render
   and prompt lookup in any order.  memo is the sequence of the calls made: the
   method, its input and what it returned; the first entry is the construction *)

\* the most calls made on the manager after its construction
MaxCalls == 3

\* a call of the manager
Call(method, input, result) == [call |-> method, input |-> input, result |-> result]

\* the classifications handed to classify_document_type
ManagerReplies ==
    { ReplyText(r) : r \in { q \in Replies : /\ q.casing = "title"
                                              /\ q.padding = "both"
                                              /\ q.context = "none"
                                              /\ q.base \in { type_mapping[1][1], UnrelatedTexts[1] } } }

\* the responses handed to parse_structured_response: an object and a text that
\* is cut short, with the type of the prompt and with another type
ManagerResponses ==
    { << Wrap("fenced", BodyText("invoice", [shape |-> "object", pairs |-> <<>>])), "invoice" >>,
      << Wrap("fenced", BodyText("invoice", [shape |-> "object", pairs |-> <<>>])), "receipt" >>,
      << Wrap("bare", BodyText("invoice", [shape |-> "truncated", pairs |-> <<>>])), "invoice" >> }

\* the lookups of a prompt: the type and the custom prompt
ManagerLookups == { << "invoice", JNull >>, << "receipt", JNull >>,
                    << "invoice", JStr("Extract only account numbers and balances") >> }

\* prompt_templates.py, get_custom_prompt: the prompt of the type, followed by
\* the instruction for the custom fields when there are any
PromptTemplates_get_custom_prompt(doc_type, custom_fields) ==
    LET base_prompt == PromptTemplates_get_extraction_prompt(doc_type) IN
    IF Truthy(custom_fields)
    THEN base_prompt \o "\n\nAdditionally extract these specific fields: " \o custom_fields.s
    ELSE base_prompt

\* what the manager and the catalog give for a type and a custom prompt
Lookup(self, doc_type, custom) ==
    [system |-> "SYSTEM_INSTRUCTION",
     classification |-> "CLASSIFICATION_PROMPT",
     extraction |-> get_extraction_prompt(self, doc_type, custom),
     template |-> PromptTemplates_get_extraction_prompt(doc_type),
     with_fields |-> PromptTemplates_get_custom_prompt(doc_type, custom),
     processing |-> get_processing_prompts(self, custom)]

\* the results of the parse calls made so far
Parsed == { memo[i].result : i \in { j \in DOMAIN memo : memo[j].call = "parse" } }

InitManager ==
    /\ pm \in [enable_classification : BOOLEAN, enable_structured_extraction : BOOLEAN]
    /\ document_type = "other"
    /\ body = NoBody
    /\ wrapping = "bare"
    /\ response_text = <<>>
    /\ outcome = None
    /\ output_format = "none"
    /\ rendered = None
    /\ reply = NoReply
    /\ classification_result = <<>>
    /\ classified = "none"
    /\ pc = "constructed"
    /\ custom_prompt = JNull
    /\ extraction_prompt = "none"
    /\ processing_prompts = <<>>
    /\ memo = << Call("__init__", << pm.enable_classification, pm.enable_structured_extraction >>, pm) >>
    /\ NoPdf

\* the variables a call of the manager leaves alone, the manager apart
managerFrame == <<document_type, body, wrapping, response_text, outcome, output_format,
                  rendered, reply, classification_result, classified, pc, custom_prompt,
                  extraction_prompt, processing_prompts, pdfVars>>

\* a manager that stops extracting once a response could not be parsed
CallParse_gives_up_after_failure(text, doc_type) ==
    /\ Len(memo) <= MaxCalls
    /\ LET result == parse_structured_response(pm, text, doc_type) IN
       /\ memo' = Append(memo, Call("parse", << text, doc_type >>, result))
       /\ pm' = IF result.tag = "Raw"
                THEN [pm EXCEPT !.enable_structured_extraction = FALSE] ELSE pm
    /\ UNCHANGED managerFrame

\* prompt_manager.py lines 37-67: nothing of self is assigned
CallClassify(text) ==
    /\ Len(memo) <= MaxCalls
    /\ memo' = Append(memo, Call("classify", text, classify_document_type(text)))
    /\ UNCHANGED <<pm, managerFrame>>

\* lines 112-152: self.enable_structured_extraction and self.logger are read
CallParse(text, doc_type) ==
    /\ Len(memo) <= MaxCalls
    /\ memo' = Append(memo, Call("parse", << text, doc_type >>,
                                 parse_structured_response(pm, text, doc_type)))
    /\ UNCHANGED <<pm, managerFrame>>

\* lines 154-173: format_output reads its arguments only
CallFormat(data, fmt) ==
    /\ Len(memo) <= MaxCalls
    /\ memo' = Append(memo, Call("format", << data, fmt >>, format_output(data, fmt)))
    /\ UNCHANGED <<pm, managerFrame>>

\* lines 29-35 and 69-110, prompt_templates.py lines 145-167: the prompts are
\* class attributes that are read
CallLookup(doc_type, custom) ==
    /\ Len(memo) <= MaxCalls
    /\ memo' = Append(memo, Call("prompt", << doc_type, custom >>, Lookup(pm, doc_type, custom)))
    /\ UNCHANGED <<pm, managerFrame>>

NextManager ==
    \/ \E text \in ManagerReplies : CallClassify(text)
    \/ \E r \in ManagerResponses : CallParse(r[1], r[2])
    \/ \E data \in Parsed, fmt \in {"markdown", "json"} : CallFormat(data, fmt)
    \/ \E l \in ManagerLookups : CallLookup(l[1], l[2])

SpecManager == InitManager /\ [][NextManager]_vars

----------------------------------------------------------------------------
(* GeminiPDFOCR of pdf_ocr.py at the grain of its files: pdf_to_images writes
   the page images into self.temp_dir, extract_text_from_image reads them,
   _cleanup_images deletes them and _save_to_file writes the output file.  One
   processor serves one call of process_pdf, or two calls at the same time; a
   call comes from a caller of process_pdf or from the web handler
   process_pdf_file of gradio_app.py, which constructs its own processor.  The
   file named page_{p-1:04d}.png is file p of temp_dir. *)

\* the most pages of a PDF
MaxPdfPages == 2

\* what a file of the temp directory holds: the page of a PDF, whole or cut short
Image(pdf, page, whole) == [pdf |-> pdf, page |-> page, whole |-> whole]

\* no file of that name
Missing == Image(0, 0, FALSE)

\* the text the model reads on an image
ImageText(img) == "text of page " \o ToString(img.page) \o " of PDF " \o ToString(img.pdf)

\* open(temp_image_path, "wb") and f.write(img_data)
WriteFile(dir, name, img) ==
    [n \in DOMAIN dir \cup {name} |-> IF n = name THEN img ELSE dir[n]]

\* lines 411-416: every path of the list is unlinked; a failure is printed
_cleanup_images(dir, paths) ==
    [n \in DOMAIN dir \ { paths[i] : i \in DOMAIN paths } |-> dir[n]]

\* line 277 and line 275: [p for p in image_paths if p]
WrittenPaths(paths) == SelectSeq(paths, LAMBDA p : p # 0)

\* the outcomes of the call of the model
ApiOutcomes == { "text", "empty", "error" }

\* an extraction that reports the failure of the model in its result
extract_text_from_image_reports_error(file, api) ==
    IF ~file.whole THEN [text |-> "", model_calls |-> 0]
    ELSE CASE api = "text" -> [text |-> ImageText(file), model_calls |-> 1]
           [] api = "empty" -> [text |-> "", model_calls |-> 1]
           [] OTHER -> [text |-> "Error in Gemini extraction", model_calls |-> 1]

\* lines 279-307: Image.open raises for a file that is missing or cut short and
\* the model is not called; else the model is called once; the text of the
\* response is returned, "" when it is empty or when anything raised
extract_text_from_image_on(file, api) ==
    IF ~file.whole THEN [text |-> "", model_calls |-> 0]
    ELSE CASE api = "text" -> [text |-> ImageText(file), model_calls |-> 1]
           [] api = "empty" -> [text |-> "", model_calls |-> 1]
           [] OTHER -> [text |-> "", model_calls |-> 1]

\* the characters of the names of files and folders
SegChars(s) ==
    CASE s = "base" -> << "b", "a", "s", "e" >>
      [] s = "Output" -> << "O", "u", "t", "p", "u", "t" >>
      [] s = "Output_evil" -> << "O", "u", "t", "p", "u", "t", "_", "e", "v", "i", "l" >>
      [] s = "sub" -> << "s", "u", "b" >>
      [] s = "evil.md" -> << "e", "v", "i", "l", ".", "m", "d" >>
      [] s = "doc1.md" -> << "d", "o", "c", "1", ".", "m", "d" >>
      [] s = "doc2.md" -> << "d", "o", "c", "2", ".", "m", "d" >>
      [] OTHER -> << s >>

RECURSIVE resolve(_, _)
\* Path.resolve(): a ".." segment drops the segment before it
resolve(segs, done) ==
    IF segs = <<>> THEN done
    ELSE IF Head(segs) = ".."
         THEN resolve(Tail(segs), IF done = <<>> THEN done ELSE SubSeq(done, 1, Len(done) - 1))
         ELSE resolve(Tail(segs), Append(done, Head(segs)))

RECURSIVE PathStr(_)
\* str(path): the characters of an absolute path
PathStr(segs) ==
    IF segs = <<>> THEN <<>> ELSE << "/" >> \o SegChars(Head(segs)) \o PathStr(Tail(segs))

\* self.output_folder of the processor, as an absolute path
output_folder == << "base", "Output" >>

\* lines 316-323: base_name + ".md" when no output_filename is given
DefaultFilename(pdf) == << "doc" \o ToString(pdf) \o ".md" >>

\* the output_filename a caller hands to process_pdf, beside the default: below
\* the output folder, above it, and in a sibling folder whose name starts alike
OutputFilenames == { << "sub", "..", "evil.md" >>, << "..", "evil.md" >>,
                     << "..", "Output_evil", "evil.md" >> }

\* lines 421-425: the test on the resolved paths, character by character
PathAccepted(output_path) ==
    startswith(PathStr(resolve(output_path, <<>>)), PathStr(resolve(output_folder, <<>>)))

\* line 309-310: the parameters of process_pdf
process_pdf_parameters == { "pdf_filename", "output_filename", "custom_prompt", "verbose" }

\* gradio_app.py lines 179-185: the keywords process_pdf_file passes
web_keywords == { "custom_prompt", "verbose", "enable_structured_extraction", "output_format" }

\* a call of process_pdf that has not started
NewCall(via, pdf, page_count, output_filename) ==
    [via |-> via, pdf |-> pdf, page_count |-> page_count, output_filename |-> output_filename,
     pc |-> IF via = "web" THEN "web" ELSE "start",
     image_paths |-> <<>>, rasterize |-> "none", extractions |-> <<>>,
     result |-> <<>>, raised |-> "none", saved |-> NoFile, status |-> "none"]

InitOcr ==
    /\ pm = [enable_classification |-> TRUE, enable_structured_extraction |-> TRUE]
    /\ document_type = "other"
    /\ body = NoBody
    /\ wrapping = "bare"
    /\ response_text = <<>>
    /\ outcome = None
    /\ output_format = "none"
    /\ rendered = None
    /\ reply = NoReply
    /\ classification_result = <<>>
    /\ classified = "none"
    /\ pc = "processing"
    /\ NoPrompts
    /\ image_paths = <<>>
    /\ futures = <<>>
    /\ model_calls = <<>>
    /\ results = <<>>
    /\ extracted_pages = <<>>
    /\ output_file = NoFile
    /\ requested_max_workers = 3
    /\ temp_dir = <<>>
    /\ \/ \E n \in 0..MaxPdfPages, f \in OutputFilenames \cup { DefaultFilename(1) } :
             ocr_calls = << NewCall("process_pdf", 1, n, f) >>
       \/ \E n \in 0..MaxPdfPages :
             ocr_calls = << NewCall("web", 1, n, DefaultFilename(1)) >>
       \/ \E n1, n2 \in 1..MaxPdfPages :
             ocr_calls = << NewCall("process_pdf", 1, n1, DefaultFilename(1)),
                            NewCall("process_pdf", 2, n2, DefaultFilename(2)) >>

\* what the calls of the processor leave alone
ocrFrame == <<promptState, pc, image_paths, futures, model_calls, results, extracted_pages,
              output_file, requested_max_workers>>

\* gradio_app.py lines 165-185: the processor is constructed and process_pdf is
\* called with the keywords of the handler; a keyword process_pdf does not have
\* is a TypeError
WebInvoke(c) ==
    /\ ocr_calls[c].pc = "web"
    /\ ocr_calls' = [ocr_calls EXCEPT ![c] =
          IF web_keywords \subseteq process_pdf_parameters
          THEN [@ EXCEPT !.pc = "start"]
          ELSE [@ EXCEPT !.pc = "raised", !.raised = "TypeError"]]
    /\ UNCHANGED <<ocrFrame, temp_dir>>

\* gradio_app.py lines 187-210: the status of the handler; except Exception
\* turns what process_pdf raised into a processing error
WebReturn(c) ==
    LET call == ocr_calls[c] IN
    /\ call.via = "web"
    /\ call.pc \in {"returned", "raised"}
    /\ call.raised # "KeyboardInterrupt"
    /\ ocr_calls' = [ocr_calls EXCEPT ![c] =
          [@ EXCEPT !.pc = "responded",
                    !.status = IF call.pc = "raised" THEN "Processing error"
                               ELSE IF call.result = <<>> THEN "Failed to extract text"
                               ELSE IF call.saved # NoFile THEN "Successfully processed"
                               ELSE "Markdown file not generated"]]
    /\ UNCHANGED <<ocrFrame, temp_dir>>

\* lines 245-249: the PDF is opened and the list of paths allocated; a PDF that
\* cannot be opened, or one without pages, gives [] and process_pdf returns []
OpenPdf(c) ==
    LET call == ocr_calls[c] IN
    /\ call.pc = "start"
    /\ \/ ocr_calls' = [ocr_calls EXCEPT ![c] =
             IF call.page_count = 0
             THEN [@ EXCEPT !.pc = "returned", !.rasterize = "done"]
             ELSE [@ EXCEPT !.pc = "rasterizing",
                            !.image_paths = [k \in 1..call.page_count |-> 0]]]
       \/ ocr_calls' = [ocr_calls EXCEPT ![c] =
             [@ EXCEPT !.pc = "returned", !.rasterize = "failed"]]
    /\ UNCHANGED <<ocrFrame, temp_dir>>

\* the next page to rasterize
NextPage(call) == Len(WrittenPaths(call.image_paths)) + 1

\* lines 256-266: the page is rendered, its file written and its path kept
WritePage(c) ==
    LET call == ocr_calls[c]
        k == NextPage(call) IN
    /\ call.pc = "rasterizing"
    /\ temp_dir' = WriteFile(temp_dir, k, Image(call.pdf, k, TRUE))
    /\ ocr_calls' = [ocr_calls EXCEPT ![c] =
          [@ EXCEPT !.image_paths[k] = k,
                    !.pc = IF k = call.page_count THEN "extracting" ELSE "rasterizing",
                    !.rasterize = IF k = call.page_count THEN "done" ELSE "none"]]
    /\ UNCHANGED ocrFrame

\* lines 256-277: loading, rendering or writing a page raises.  The file of the
\* page may have been opened already; its path is not in the list.  An Exception
\* is caught: the files of the list are deleted and [] returned.  An interrupt is
\* no Exception and leaves pdf_to_images and process_pdf
RasterizeRaises(c, interrupt, opened) ==
    LET call == ocr_calls[c]
        k == NextPage(call)
        dir == IF opened THEN WriteFile(temp_dir, k, Image(call.pdf, k, FALSE)) ELSE temp_dir IN
    /\ call.pc = "rasterizing"
    /\ IF interrupt
       THEN /\ temp_dir' = dir
            /\ ocr_calls' = [ocr_calls EXCEPT ![c] =
                  [@ EXCEPT !.pc = "raised", !.raised = "KeyboardInterrupt",
                            !.rasterize = "interrupted"]]
       ELSE /\ temp_dir' = _cleanup_images(dir, WrittenPaths(call.image_paths))
            /\ ocr_calls' = [ocr_calls EXCEPT ![c] =
                  [@ EXCEPT !.pc = "returned", !.rasterize = "failed"]]
    /\ UNCHANGED ocrFrame

\* lines 339-351: extract_text_from_image is called for the next page with the
\* file its path names now
ExtractPage(c, api) ==
    LET call == ocr_calls[c]
        k == Len(call.extractions) + 1
        file == IF call.image_paths[k] \in DOMAIN temp_dir
                THEN temp_dir[call.image_paths[k]] ELSE Missing
        r == extract_text_from_image_on(file, api) IN
    /\ call.pc = "extracting"
    /\ k <= call.page_count
    /\ ocr_calls' = [ocr_calls EXCEPT ![c] =
          [@ EXCEPT !.extractions = Append(@, [page |-> k, saw |-> file,
                                               api |-> IF file.whole THEN api ELSE "not called",
                                               text |-> r.text, model_calls |-> r.model_calls])]]
    /\ UNCHANGED <<ocrFrame, temp_dir>>

\* lines 339-356: process_single_image raises and the exception leaves
\* process_pdf through executor.map
ExtractRaises(c) ==
    LET call == ocr_calls[c] IN
    /\ call.pc = "extracting"
    /\ Len(call.extractions) < call.page_count
    /\ ocr_calls' = [ocr_calls EXCEPT ![c] = [@ EXCEPT !.pc = "raised", !.raised = "Exception"]]
    /\ UNCHANGED <<ocrFrame, temp_dir>>

\* lines 358-366: the texts are put in page order, the images are deleted, the
\* file is saved and the pages returned.  _save_to_file raises ValueError for a
\* path it does not accept, and raises again what the write raised
Finish(c) ==
    LET call == ocr_calls[c]
        pages == [k \in 1..call.page_count |-> call.extractions[k].text]
        output_path == output_folder \o call.output_filename IN
    /\ call.pc = "extracting"
    /\ Len(call.extractions) = call.page_count
    /\ temp_dir' = _cleanup_images(temp_dir, call.image_paths)
    /\ IF ~PathAccepted(output_path)
       THEN ocr_calls' = [ocr_calls EXCEPT ![c] =
                [@ EXCEPT !.pc = "raised", !.raised = "ValueError"]]
       ELSE \/ ocr_calls' = [ocr_calls EXCEPT ![c] =
                  [@ EXCEPT !.pc = "returned", !.result = pages,
                            !.saved = [tag |-> "Saved", path |-> resolve(output_path, <<>>),
                                       file |-> _save_to_file(pages)]]]
            \/ ocr_calls' = [ocr_calls EXCEPT ![c] =
                  [@ EXCEPT !.pc = "raised", !.raised = "OSError"]]
    /\ UNCHANGED ocrFrame

NextOcr ==
    \/ \E c \in DOMAIN ocr_calls : WebInvoke(c)
    \/ \E c \in DOMAIN ocr_calls : WebReturn(c)
    \/ \E c \in DOMAIN ocr_calls : OpenPdf(c)
    \/ \E c \in DOMAIN ocr_calls : WritePage(c)
    \/ \E c \in DOMAIN ocr_calls, interrupt, opened \in BOOLEAN : RasterizeRaises(c, interrupt, opened)
    \/ \E c \in DOMAIN ocr_calls, api \in ApiOutcomes : ExtractPage(c, api)
    \/ \E c \in DOMAIN ocr_calls : ExtractRaises(c)
    \/ \E c \in DOMAIN ocr_calls : Finish(c)

SpecOcr == InitOcr /\ [][NextOcr]_vars

----------------------------------------------------------------------------
(* What the claims say about the generated bodies *)

Keys(b) == { b.pairs[i].key : i \in 1..Len(b.pairs) }

Kinds(b) == { b.pairs[i].kind : i \in 1..Len(b.pairs) }

IsObject(b) == b.shape = "object"

\* the body without its undeclared keys
WithoutExtra(b) == [shape |-> b.shape, pairs |-> SelectSeq(b.pairs, LAMBDA p : p.kind # "extra")]

\* the schema class each DocumentType is documented to select, and the fixed
\* document_type of each class
TypeOfClass ==
    [ BankStatementSchema |-> "bank_statement",
      InsuranceClaimSchema |-> "insurance_form",
      AccidentClaimSchema |-> "accident_claim",
      InvoiceSchema |-> "invoice",
      GeneralDocumentSchema |-> "other" ]

\* two outcomes are equivalent: both raw, or the same structured record
Equivalent(a, b) == a.tag = b.tag /\ (a.tag = "Structured" => a = b)

(* C1: for every response text and every DocumentType, parse_structured_response
   returns a raw text or a structured record and raises nothing. *)
C1_ParseNeverRaises ==
    /\ outcome.tag \in {"None", "Raw", "Structured"}
    /\ pc # "received" => outcome.tag \in {"Raw", "Structured"}

\* a fenced JSON list, which is no mapping, came back as raw text
C1_Witness ==
    /\ pc = "parsed"
    /\ pm.enable_structured_extraction
    /\ body.shape = "list"
    /\ wrapping = "fenced"
    /\ outcome.tag = "Raw"

(* C2: when the text is no JSON object, or a present field (also one of a nested
   transaction) fails its type check, the result is the raw fallback holding the
   response text exactly as passed in, never a structured record. *)
C2_RawFallbackCarriesOriginalText ==
    pc = "parsed" =>
        /\ (~IsObject(body) \/ "bad" \in Kinds(body)) => outcome = Raw(response_text)
        /\ outcome.tag = "Raw" => outcome.text = response_text

\* a padded, fenced object with one good field and a transaction whose amount
\* is no number came back as the untrimmed text
C2_Witness ==
    /\ pc = "parsed"
    /\ pm.enable_structured_extraction
    /\ wrapping = "padded"
    /\ body = [shape |-> "object",
               pairs |-> << Pair("account_holder", "good", ""), Pair("transactions", "bad", "") >>]
    /\ outcome = Raw(response_text)
    /\ CleanResponse(response_text) # response_text

(* C3: every structured record carries the document_type of the schema class the
   registry selects for the requested type. *)
C3_StructuredCarriesSchemaType ==
    outcome.tag = "Structured" =>
        /\ outcome.cls = get_schema_for_document_type(document_type)
        /\ outcome.rec.document_type = JStr(TypeOfClass[outcome.cls])

(* C4: parsing and then rendering, in any format, returns a text and raises
   nothing. *)
C4_PipelineNeverRaises ==
    /\ outcome.tag # "Raised"
    /\ rendered.tag # "Raised"

\* every present value fits its field
OnlyValidPairs(b) == IsObject(b) /\ Kinds(b) \subseteq {"good", "coerced", "enum", "extra"}

(* C5 as stated: an object with any subset of the fields missing validates, and
   every absent field whose annotation is Optional is null in the record. *)
C5_AbsentFieldsAreNull ==
    (pc = "parsed" /\ pm.enable_structured_extraction /\ OnlyValidPairs(body)) =>
        /\ outcome.tag = "Structured"
        /\ \A n \in DOMAIN outcome.rec \ Keys(body) :
              FieldOf(SchemaClasses[outcome.cls], n).nullable => outcome.rec[n] = JNull

\* the value an absent field of a class is documented to take
ExpectedDefault(cls, n) ==
    LET type == FieldOf(SchemaClasses[cls], n).type IN
    CASE n = "document_type" -> JStr(TypeOfClass[cls])
      [] type \in {"List[Transaction]", "List[str]", "List[float]"} -> JList(<<>>)
      [] type = "Dict[str, Any]" -> JObj(EmptyMap)
      [] OTHER -> JNull

(* C5 as amended: an object with any subset of the fields missing validates to a
   structured record of the class of the requested type, in which an absent text,
   number or enum field is null, an absent list field is the empty list, an
   absent key_information is the empty map and an absent document_type is the
   class's own type. *)
C5_AbsentFieldsTakeDefaults ==
    (pc = "parsed" /\ pm.enable_structured_extraction /\ OnlyValidPairs(body)) =>
        /\ outcome.tag = "Structured"
        /\ outcome.cls = get_schema_for_document_type(document_type)
        /\ DOMAIN outcome.rec = FieldNames(SchemaClasses[outcome.cls])
        /\ \A n \in DOMAIN outcome.rec \ Keys(body) :
              outcome.rec[n] = ExpectedDefault(outcome.cls, n)

\* the empty object parsed as an accident claim: a record with null texts and an
\* empty list of witnesses
C5_Witness ==
    /\ pc = "parsed"
    /\ pm.enable_structured_extraction
    /\ document_type = "accident_claim"
    /\ body = [shape |-> "object", pairs |-> <<>>]
    /\ outcome.tag = "Structured"
    /\ outcome.rec.claim_number = JNull
    /\ outcome.rec.witnesses = JList(<<>>)

(* C6: an object that sets any declared field, transactions and document_type
   included, to null validates to a structured record. *)
C6_NullFieldsValidate ==
    (/\ pc = "parsed"
     /\ pm.enable_structured_extraction
     /\ IsObject(body)
     /\ Kinds(body) \subseteq {"null", "good", "coerced", "enum", "extra"}) =>
        outcome.tag = "Structured"

(* C7: an object with keys the schema does not declare validates whenever the
   object without them does, to the same record; an undeclared key, also inside
   a transaction, never causes the raw fallback. *)
C7_ExtraKeysIgnored ==
    (pc = "parsed" /\ IsObject(body) /\ "extra" \in Kinds(body)) =>
        LET base == parse_structured_response(
                        pm, BodyText(document_type, WithoutExtra(body)), document_type)
        IN  /\ base.tag = "Structured" => outcome = base
            /\ (pm.enable_structured_extraction /\ OnlyValidPairs(body)) =>
                    outcome.tag = "Structured"

\* an object with a good field and an undeclared key became a record
C7_Witness ==
    /\ pc = "parsed"
    /\ body = [shape |-> "object",
               pairs |-> << Pair("account_holder", "good", ""), Pair(ExtraKey, "extra", "") >>]
    /\ outcome.tag = "Structured"
    /\ outcome.rec.account_holder = JStr("John Doe")
    /\ ExtraKey \notin DOMAIN outcome.rec

(* C8: the outcome for a body inside a leading json fence and a trailing fence,
   with blanks around, or inside only one of the two markers, or inside none, is
   equivalent to the outcome for the body alone: both raw, or the same record. *)
C8_FenceStrippingEquivalent ==
    pc = "parsed" =>
        Equivalent(outcome,
                   parse_structured_response(pm, BodyText(document_type, body), document_type))

\* a padded, fenced object of two fields became a record
C8_Witness ==
    /\ pc = "parsed"
    /\ wrapping = "padded"
    /\ Len(body.pairs) = 2
    /\ outcome.tag = "Structured"
    /\ startswith(strip(response_text), FenceJson)
    /\ endswith(strip(response_text), Fence)

(* C9: classify_document_type returns a DocumentType for every text; a phrase of
   the table is recognized in any casing and between any blanks; a text that
   equals no table phrase after normalization gives "other". *)
C9_ClassifierTotal ==
    pc = "classified" =>
        /\ classified \in DocumentType
        /\ (reply.entry > 0 /\ reply.context = "none") =>
                classified = type_mapping[reply.entry][2]
        /\ reply.entry = 0 => classified = "other"

\* INSURANCE between blanks is an insurance form
C9_Witness ==
    /\ pc = "classified"
    /\ reply.entry = 6
    /\ reply.casing = "upper"
    /\ reply.padding = "both"
    /\ reply.context = "none"
    /\ classified = "insurance_form"

\* the first table entry whose phrase the normalized text contains, or 0
FirstContained(text) ==
    LET result == lower(strip(text))
        hits == { i \in 1..Len(type_mapping) : IsSubstring(type_mapping[i][1], result) }
    IN  IF hits = {} THEN 0 ELSE CHOOSE i \in hits : \A j \in hits : i <= j

(* C10 as stated: a text that contains a table phrase is mapped to the type of
   the first table entry it contains. *)
C10_SubstringMatchFirstWins ==
    (pc = "classified" /\ FirstContained(classification_result) > 0) =>
        classified = type_mapping[FirstContained(classification_result)][2]

(* C10 as amended: the normalized text is looked up by equality only: a phrase
   on its own gives its type, a phrase inside other text gives "other", and the
   table phrases are distinct, so at most one entry matches. *)
C10_ExactMatchOnly ==
    /\ \A i, j \in 1..Len(type_mapping) : type_mapping[i][1] = type_mapping[j][1] => i = j
    /\ pc = "classified" =>
        /\ (reply.entry > 0 /\ reply.context = "none") =>
                classified = type_mapping[reply.entry][2]
        /\ reply.context # "none" => classified = "other"

\* "this is an invoice" is classified as other
C10_Witness ==
    /\ pc = "classified"
    /\ reply.entry = 10
    /\ reply.context = "prefix"
    /\ reply.casing = "lower"
    /\ classified = "other"

----------------------------------------------------------------------------
\* C11: the schema registry is total over DocumentType: whatever type a response
\* is parsed for, the registry names one of the schema classes, and a structured
\* record is always of the class the registry names for that type.
C11_SchemaRegistryTotal ==
    /\ \A t \in DocumentType : get_schema_for_document_type(t) \in DOMAIN SchemaClasses
    /\ (pc = "parsed" /\ outcome.tag = "Structured")
          => outcome.cls = get_schema_for_document_type(document_type)

\* a type the mapping does not list is parsed with the general schema
C11_Witness ==
    /\ pc = "parsed"
    /\ document_type \in {"receipt", "contract"}
    /\ outcome.tag = "Structured"
    /\ outcome.cls = "GeneralDocumentSchema"

\* C12: a raw outcome is rendered as exactly its own text, whatever the format
\* asked for: rendering a plain string never fails and never changes it.
C12_RawRenderedUnchanged ==
    (pc \in {"rendered", "failed"} /\ outcome.tag = "Raw")
        => rendered = Returned(outcome.text)

\* a fenced and padded response that fell back to raw text, rendered as JSON
C12_Witness ==
    /\ pc = "rendered"
    /\ outcome.tag = "Raw"
    /\ wrapping = "padded"
    /\ output_format = "json"
    /\ rendered.text = response_text
    /\ rendered.text # strip(response_text)

\* two JSON values are the same value: numbers by their amount (7 and 7.0 are
\* equal), lists item by item in order, objects key by key of the first
RECURSIVE SameValue(_, _)
SameValue(a, b) ==
    CASE a.k \in {"num", "int"} -> b.k \in {"num", "int"} /\ a.n = b.n
      [] a.k = "list" -> /\ b.k = "list"
                         /\ Len(a.xs) = Len(b.xs)
                         /\ \A i \in 1..Len(a.xs) : SameValue(a.xs[i], b.xs[i])
      [] a.k = "obj" -> /\ b.k = "obj"
                        /\ \A key \in DOMAIN a.m :
                              key \in DOMAIN b.m /\ SameValue(a.m[key], b.m[key])
      [] OTHER -> a = b

\* C13: JSON round trip: a complete bank statement, parsed and rendered as JSON,
\* reads back as JSON with the same value for every field of the schema, the
\* transactions in the same order.
C13_JsonRoundTrip ==
    (pc \in {"rendered", "failed"} /\ output_format = "json") =>
        /\ outcome.tag = "Structured"
        /\ rendered.tag = "Returned"
        /\ LET original == json_loads(FullBodyText(body))
               back == json_loads(rendered.text)
           IN  /\ ~original.err /\ ~back.err
               /\ back.v.k = "obj"
               /\ \A f \in FieldNames(BankStatementSchema) :
                     /\ f \in DOMAIN original.v.m
                     /\ f \in DOMAIN back.v.m
                     /\ SameValue(original.v.m[f], back.v.m[f])

\* a fenced statement with an int balance and two transactions, the later date
\* first, rendered as JSON
C13_Witness ==
    /\ pc = "rendered"
    /\ output_format = "json"
    /\ wrapping = "fenced"
    /\ body.nums["opening_balance"] = "7"
    /\ body.txns = << 1, 2 >>
    /\ outcome.tag = "Structured"
    /\ Len(outcome.rec.transactions.xs) = 2
    /\ outcome.rec.opening_balance = JNum(7000)

\* the row a complete transaction is written as
ExpectedRow(t) ==
    "| " \o t.date \o " | " \o t.description \o " | $" \o Fmt2f(NumberOf(t.amount).n)
    \o " | $" \o Fmt2f(NumberOf(t.balance).n) \o " |"

\* C14: the markdown of a bank statement has exactly one table row per
\* transaction, in the order of the record's list, whatever the dates are: no
\* row is moved, dropped or written twice.
C14_RowsInListOrder ==
    (pc \in {"rendered", "failed"} /\ output_format = "markdown") =>
        /\ rendered.tag = "Returned"
        /\ LET n == Len(body.txns)
               lines == rendered.text
               \* the lines before the table, and the lines of the table's heading
               before == 10
               heading == 4
           IN  IF n = 0 THEN Len(lines) = before
               ELSE /\ Len(lines) = before + heading + n
                    /\ \A i \in 1..n :
                          lines[before + heading + i] = ExpectedRow(FullTxnPool[body.txns[i]])

\* two transactions, the one dated February before the one dated January
C14_Witness ==
    /\ pc = "rendered"
    /\ output_format = "markdown"
    /\ body.txns = << 1, 2 >>
    /\ rendered.text[15] = "| 2024-02-01 | John Doe | $3000.00 | $1234.50 |"
    /\ rendered.text[16] = "| 2024-01-15 | Jane Roe | $-150.00 | $7.00 |"

\* the text each amount in use is to be written as
ExpectedAmount(n) ==
    CASE n = 0 -> "$0.00"
      [] n = 7000 -> "$7.00"
      [] n = 1234500 -> "$1234.50"
      [] n = 3000000 -> "$3000.00"
      [] n = 0 - 150000 -> "$-150.00"

\* the text a money field of a record is to be written as: absent is as zero
ExpectedMoney(v) == IF v.k = "null" THEN "$0.00" ELSE ExpectedAmount(v.n)

\* the line of each template that shows a money field: the type the template
\* is for, the field, the place of the line and its label
MoneyLines ==
    { <<"bank_statement", "opening_balance", 8, "**Opening Balance:** ">>,
      <<"bank_statement", "closing_balance", 9, "**Closing Balance:** ">>,
      <<"insurance_form", "claim_amount", 7, "**Claim Amount:** ">>,
      <<"accident_claim", "damage_amount", 7, "**Damage Amount:** ">>,
      <<"invoice", "total_amount", 7, "**Total Amount:** ">> }

\* the rows of the transactions, their money written as expected
ExpectedRows(txns) ==
    [i \in 1..Len(txns) |->
        "| " \o OrNA(txns[i].m.date) \o " | " \o OrNA(txns[i].m.description) \o " | "
        \o ExpectedMoney(txns[i].m.amount) \o " | " \o ExpectedMoney(txns[i].m.balance) \o " |"]

\* the record carries a document_type of its own class, so that the template
\* chosen is the one written for the class
OwnTemplate ==
    /\ outcome.tag = "Structured"
    /\ get_schema_for_document_type(outcome.rec.document_type.s) = outcome.cls

\* C15: in every markdown template a money field is a dollar sign and the amount
\* with exactly two decimals, and a money field that is null is written $0.00,
\* as a field whose value is zero is.
C15_MoneyTwoDecimals ==
    (pc = "rendered" /\ output_format = "markdown" /\ OwnTemplate) =>
        LET d == outcome.rec
            lines == rendered.text
        IN  /\ \A ml \in MoneyLines :
                  d.document_type.s = ml[1] => lines[ml[3]] = ml[4] \o ExpectedMoney(d[ml[2]])
            /\ (d.document_type.s = "bank_statement" /\ Len(d.transactions.xs) > 0)
                  => SubSeq(lines, 15, Len(lines)) = ExpectedRows(d.transactions.xs)
            /\ (outcome.cls = "GeneralDocumentSchema" /\ Truthy(d.amounts))
                  => lines[Len(lines)] = "**Amounts:** $1234.50, $7.00"

\* a statement whose opening balance is 1234.5 and whose closing balance is null
C15_Witness ==
    /\ pc = "rendered"
    /\ output_format = "markdown"
    /\ body = [shape |-> "object",
               pairs |-> << Pair("opening_balance", "good", ""),
                            Pair("closing_balance", "null", "") >>]
    /\ rendered.text[8] = "**Opening Balance:** $1234.50"
    /\ rendered.text[9] = "**Closing Balance:** $0.00"

\* C16: for a structured record a format that is neither markdown nor json, text
\* and unrecognized names alike, never fails: the result is the record's generic
\* string form, which depends on the record alone.
C16_UnknownFormatFallsBack ==
    (pc \in {"rendered", "failed"} /\ outcome.tag = "Structured"
     /\ output_format \notin {"markdown", "json"}) =>
        /\ pc = "rendered"
        /\ rendered = Returned(str(outcome))

\* a structured record asked for in a format the renderer does not know
C16_Witness ==
    /\ pc = "rendered"
    /\ outcome.tag = "Structured"
    /\ output_format = "html"
    /\ rendered.tag = "Returned"
    /\ rendered.text[1] = outcome.cls

\* the prompt written for each of the four typed documents
OwnPrompt ==
    [ bank_statement |-> "BANK_STATEMENT_PROMPT",
      insurance_form |-> "INSURANCE_FORM_PROMPT",
      accident_claim |-> "ACCIDENT_CLAIM_PROMPT",
      invoice |-> "INVOICE_PROMPT" ]

\* C17: the extraction prompt follows the classified type: a non-empty custom
\* prompt is returned as it is; otherwise, with structured extraction off, the
\* markdown prompt; otherwise the own prompt of a bank statement, insurance form,
\* accident claim or invoice, and the general document prompt for any other type.
C17_PromptFollowsClassifiedType ==
    pc = "prompted" =>
        extraction_prompt =
            (IF custom_prompt.k = "str" /\ custom_prompt.s # "" THEN custom_prompt.s
             ELSE IF ~pm.enable_structured_extraction THEN "MARKDOWN_FALLBACK_PROMPT"
             ELSE IF classified \in DOMAIN OwnPrompt THEN OwnPrompt[classified]
             ELSE "GENERAL_DOCUMENT_PROMPT")

\* the reply BANK STATEMENT between blanks, no custom prompt: the prompt of the
\* bank statement
C17_Witness ==
    /\ pc = "prompted"
    /\ reply.casing = "upper"
    /\ reply.padding = "both"
    /\ reply.base = << "b", "a", "n", "k", " ", "s", "t", "a", "t", "e", "m", "e", "n", "t" >>
    /\ reply.context = "none"
    /\ custom_prompt = JNull
    /\ pm.enable_structured_extraction
    /\ classified = "bank_statement"
    /\ extraction_prompt = "BANK_STATEMENT_PROMPT"

\* the calls of the model for page i, in the order they were made
CallsOfPage(i) == SelectSeq(model_calls, LAMBDA c : c[1] = i)

\* C18: per page, with classification enabled and no custom prompt the model is
\* called exactly twice, first with the classification prompt and then with an
\* extraction prompt of a type; with classification disabled or a custom prompt
\* it is called exactly once, for the extraction.
C18_ClassifyThenExtract ==
    pc = "returned" =>
        \A i \in 1..Len(image_paths) :
            LET calls == CallsOfPage(i) IN
            IF pm.enable_classification /\ ~Truthy(custom_prompt)
            THEN /\ Len(calls) = 2
                 /\ calls[1][2] = JStr("CLASSIFICATION_PROMPT")
                 /\ calls[2][2] \in { JStr(p) : p \in ExtractionPrompts }
            ELSE /\ Len(calls) = 1
                 /\ calls[1][2] = custom_prompt

\* C19: whatever order the workers finish in, a process_pdf that returns gives a
\* list with exactly one entry per page image, entry i the one result of page
\* i; every page is given to the model once and no page ever has two results.
C19_OneResultPerPageInOrder ==
    /\ \A i \in 1..Len(image_paths) :
          /\ Len(CallsOfPage(i)) <= 1
          /\ Len(SelectSeq(results, LAMBDA r : r[1] = i)) <= 1
    /\ pc = "returned" =>
          /\ Len(extracted_pages) = Len(image_paths)
          /\ \A i \in 1..Len(image_paths) :
                /\ futures[i].state = "done"
                /\ extracted_pages[i] = futures[i].text
                /\ Len(CallsOfPage(i)) = 1

\* three pages, the second finished first and the third without text
C19_Witness ==
    /\ pc = "returned"
    /\ Len(image_paths) = 3
    /\ model_calls[1][1] = 2
    /\ model_calls[2][1] = 3
    /\ extracted_pages = << PageText(1), PageText(2), "" >>

\* C20: when the processing is interrupted, or the processing of a page raises,
\* before every page was gathered, the pages that did complete are dropped: no
\* output file is written and no list of pages is returned.
C20_NoPartialOutput ==
    pc \in {"unwinding", "raised"} =>
        /\ output_file = NoFile
        /\ extracted_pages = <<>>

\* the first page was gathered, the second raised: the exception has left
\* process_pdf and there is no file
C20_Witness ==
    /\ pc = "raised"
    /\ Len(image_paths) = 3
    /\ results = << << 1, PageText(1) >> >>
    /\ futures[2].state = "raised"
    /\ futures[3].state \in {"done", "cancelled"}
    /\ output_file = NoFile

\* C21: when the extraction raises for some pages of a PDF and succeeds for
\* others, process_pdf still completes and returns a list of pages: the
\* exception never reaches its caller.
C21_PageFailureTolerated ==
    (\E i \in DOMAIN futures : futures[i].state = "raised") => pc \notin {"unwinding", "raised"}

(* C22: after any sequence of classify, parse, render and prompt-lookup calls on
   one PromptManager, a call repeated with the same input returns what it
   returned before, the prompts of a type included, and the two flags of the
   manager are the ones it was constructed with. *)
C22_CallsLeaveNoTrace ==
    /\ memo[1].call = "__init__" => pm = memo[1].result
    /\ \A i, j \in DOMAIN memo :
          (i < j /\ memo[i].call = memo[j].call /\ memo[i].call # "__init__"
                 /\ memo[i].input = memo[j].input)
          => memo[i].result = memo[j].result

\* a response is parsed to a record, another call is made, and the same response
\* is parsed again
C22_Witness ==
    \E i, j, k \in DOMAIN memo :
        /\ i < j /\ j < k
        /\ memo[i].call = "parse" /\ memo[k].call = "parse"
        /\ memo[j].call # "parse"
        /\ memo[i].input = memo[k].input
        /\ memo[i].result.tag = "Structured"


(* C23: for any max_workers the processor was constructed with, no more than
   min(max_workers, 4) calls of the model are in flight at the same time, and a
   call of process_pdf that no page's extraction and no interrupt has cut short
   ends with every page processed. *)
C23_BoundedPoolProcessesEveryPage ==
    /\ Cardinality(Running) <= min(requested_max_workers, 4)
    /\ ( /\ pc \in {"returned", "save_failed", "raised"}
         /\ \A i \in DOMAIN futures : futures[i].state \notin {"raised", "cancelled"} )
       => /\ Len(futures) = Len(image_paths)
          /\ \A i \in DOMAIN futures : futures[i].state = "done"


(* C24: when the rasterization of a PDF fails or is interrupted at any page,
   pdf_to_images returns an empty list, nothing is raised, and no page image
   written by that call is left in the temp directory. *)
C24_RasterizeAllOrNothing ==
    Len(ocr_calls) = 1 =>
        LET call == ocr_calls[1] IN
        call.rasterize \in {"failed", "interrupted"} =>
            /\ call.pc # "raised"
            /\ call.result = <<>>
            /\ \A n \in DOMAIN temp_dir : temp_dir[n].whole => temp_dir[n].pdf # call.pdf


(* C25: every invocation of extract_text_from_image returns a text: the empty
   string when the image cannot be read, when the call of the model fails and
   when the response is empty; the model is called at most once; and an
   invocation whose model call succeeds returns the text of its image, whatever
   happened to the invocations before it. *)
C25_ExtractNeverRaises ==
    \A c \in DOMAIN ocr_calls :
        \A k \in DOMAIN ocr_calls[c].extractions :
            LET e == ocr_calls[c].extractions[k] IN
            /\ e.model_calls <= 1
            /\ e.api = "not called" <=> e.model_calls = 0
            /\ e.text = IF e.api = "text" THEN ImageText(e.saw) ELSE ""

\* the model fails for the first page of a PDF and answers for the second
C25_Witness ==
    \E c \in DOMAIN ocr_calls :
        LET es == ocr_calls[c].extractions IN
        /\ Len(es) = 2
        /\ es[1].api = "error" /\ es[1].text = ""
        /\ es[2].api = "text" /\ es[2].text = ImageText(Image(ocr_calls[c].pdf, 2, TRUE))


(* C26: the web handler calls process_pdf with arguments process_pdf accepts,
   so that no TypeError comes of the call itself; when the call yields at least
   one page the handler returns the success status, and it returns the
   processing error only when a step of the processing raised. *)
C26_WebHandlerInvokesProcessPdf ==
    \A c \in DOMAIN ocr_calls :
        LET call == ocr_calls[c] IN
        call.via = "web" =>
            /\ call.raised # "TypeError"
            /\ (call.pc = "responded" /\ call.result # <<>>)
                  => call.status = "Successfully processed"
            /\ call.status = "Processing error"
                  => call.raised \in {"Exception", "ValueError", "OSError"}


\* the resolved path is the output folder or below it
InsideOutputFolder(path) ==
    /\ Len(path) >= Len(output_folder)
    /\ SubSeq(path, 1, Len(output_folder)) = output_folder

(* C27: for an output path whose resolved location is not the output folder or a
   descendant of it, _save_to_file raises ValueError and writes no file: a file
   is only ever written inside the output folder. *)
C27_SavesOnlyInsideOutputFolder ==
    \A c \in DOMAIN ocr_calls :
        LET call == ocr_calls[c]
            target == resolve(output_folder \o call.output_filename, <<>>)
            saving == /\ call.pc \in {"returned", "raised"}
                      /\ call.page_count > 0
                      /\ Len(call.extractions) = call.page_count
        IN  /\ call.saved # NoFile => InsideOutputFolder(call.saved.path)
            /\ (saving /\ ~InsideOutputFolder(target))
                  => call.saved = NoFile /\ call.raised = "ValueError"


(* C28: the prompt of every call of the model is a text that is not empty: the
   custom prompt when one is given, and the built-in instruction to extract the
   text as markdown when none is given. *)
C28_PromptNeverEmpty ==
    \A k \in DOMAIN model_calls :
        LET prompt == model_calls[k][2] IN
        /\ Truthy(prompt)
        /\ prompt = IF Truthy(custom_prompt) THEN custom_prompt
                    ELSE JStr("Extract all text from the image and convert it into proper markdown format, ensuring all details are captured accurately.")


(* C29: when two calls of process_pdf run at the same time on one processor, for
   different PDFs, every image a call hands to the model is the whole image of
   its own page of its own PDF, neither overwritten nor deleted by the other
   call, so that its pages and its output file hold text of its own PDF only. *)
C29_ConcurrentCallsIsolated ==
    Len(ocr_calls) = 2 =>
        \A c \in DOMAIN ocr_calls :
            LET call == ocr_calls[c] IN
            /\ \A k \in DOMAIN call.extractions :
                  call.extractions[k].saw = Image(call.pdf, k, TRUE)
            /\ \A k \in DOMAIN call.result :
                  call.result[k] \in { "", ImageText(Image(call.pdf, k, TRUE)) }

(* C30: once a call of process_pdf has finished, by returning or by raising
   because the extraction of a page or the save of the file failed, no page
   image rasterized for its PDF is left in the temp directory. *)
C30_ImagesDoNotOutliveCall ==
    Len(ocr_calls) = 1 =>
        LET call == ocr_calls[1] IN
        ( /\ call.pc \in {"returned", "raised"}
          /\ call.raised \in {"none", "Exception", "ValueError", "OSError"} )
        => \A n \in DOMAIN temp_dir : temp_dir[n].whole => temp_dir[n].pdf # call.pdf


====
